---- MODULE Spec2Model ----
(***************************************************************************)
(* Shield mode-switching and register-access protocol (shield.c/shield.h). *)
(* The seven select lines GPIO_GEN0..6, the in-memory registers, the       *)
(* persisted reboot counter and the position of the single caller thread   *)
(* are the state; every public function is an action.  A function that     *)
(* calls VerifyAndFixShieldMode is split at the samples of that loop,      *)
(* because the line levels sampled are an input of every iteration.        *)
(***************************************************************************)
EXTENDS Integers, Sequences, FiniteSets, TLC

\* ---------------------------------------------------------------- constants
DIO == 0
SPI == 1
SIO == 2

INIT_ALL_LOW == 0
NONE == 112
INTERNAL_REG == 120
OUTPUT_REG_1 == 121
OUTPUT_REG_2 == 122
INPUT_REG == 123
DAC == 126
RTC == 125
ADC == 127

MAX_SAMPLING_RETRY_TIME == 3
MAX_REBOOT_RETRY_TIME == 3
ADC_MAXIMUM == 4095

\* ------------------------------------------------------------------ bounds
\* pin-level calls one process makes between ShieldLibInit and its end
MaxCalls == 2
\* reports the barcode monitor receives in one run
MaxReports == 3
\* bytes of data one Buffer is filled with
MaxData == 3
\* calls into log.c in one run
MaxLogCalls == 4

\* ------------------------------------------------------- integer arithmetic
\* A C int is the set of the positions (0..31) of its one bits, so that
\* |, & and ~ are exact on all 32 bits; a uint8_t is a number in 0..255.
Bits(x) == {i \in 0..15 : (x \div (2 ^ i)) % 2 = 1}

\* conversion of an int to uint8_t: the low eight bits
U8(S) == LET b(i) == IF i \in S THEN 2 ^ i ELSE 0
         IN  b(0) + b(1) + b(2) + b(3) + b(4) + b(5) + b(6) + b(7)

\* 1 << n.  A shift count outside 0..31 is undefined: the ARM and x86 builds
\* yield 0 and 1 << 31; a negative n stands for the wrapped unsigned count.
Shl1(n) == IF n \in 0..31 THEN {{n}} ELSE {{}, {31}}

\* reg |= m  and  reg &= ~m  on a uint8_t
OrAssign(reg, m) == U8(Bits(reg) \cup m)
AndNotAssign(reg, m) == U8(Bits(reg) \ m)

\* ------------------------------------------------------------- select lines
GEN == 0..6

RECURSIVE gpio_write(_, _)
gpio_write(l, ws) ==
    IF ws = <<>> THEN l
    ELSE gpio_write([l EXCEPT ![Head(ws)[1]] = Head(ws)[2]], Tail(ws))

ModeWrites_RtcAsDac(mode) ==
    CASE mode = INIT_ALL_LOW ->
           <<<<6, 0>>, <<5, 0>>, <<4, 0>>, <<3, 0>>, <<2, 0>>, <<1, 0>>, <<0, 0>>>>
      [] mode = NONE -> <<<<3, 0>>, <<2, 0>>, <<1, 0>>, <<0, 0>>>>
      [] mode = DAC -> <<<<2, 1>>, <<1, 1>>, <<0, 0>>>>
      [] mode = RTC -> <<<<2, 1>>, <<1, 1>>, <<0, 0>>>>
      [] mode = INTERNAL_REG -> <<<<2, 0>>, <<1, 0>>, <<0, 0>>>>
      [] mode = OUTPUT_REG_1 -> <<<<2, 0>>, <<1, 0>>, <<0, 1>>>>
      [] mode = OUTPUT_REG_2 -> <<<<2, 0>>, <<1, 1>>, <<0, 0>>>>
      [] mode = INPUT_REG -> <<<<2, 0>>, <<1, 1>>, <<0, 1>>>>
      [] OTHER -> <<<<2, 1>>, <<1, 1>>, <<0, 1>>>>

\* the line writes of the switch statement, in program order
ModeWrites(mode) ==
    CASE mode = INIT_ALL_LOW ->
           <<<<6, 0>>, <<5, 0>>, <<4, 0>>, <<3, 0>>, <<2, 0>>, <<1, 0>>, <<0, 0>>>>
      [] mode = NONE -> <<<<3, 0>>, <<2, 0>>, <<1, 0>>, <<0, 0>>>>
      [] mode = DAC -> <<<<2, 1>>, <<1, 1>>, <<0, 0>>>>
      [] mode = RTC -> <<<<2, 1>>, <<1, 0>>, <<0, 1>>>>
      [] mode = INTERNAL_REG -> <<<<2, 0>>, <<1, 0>>, <<0, 0>>>>
      [] mode = OUTPUT_REG_1 -> <<<<2, 0>>, <<1, 0>>, <<0, 1>>>>
      [] mode = OUTPUT_REG_2 -> <<<<2, 0>>, <<1, 1>>, <<0, 0>>>>
      [] mode = INPUT_REG -> <<<<2, 0>>, <<1, 1>>, <<0, 1>>>>
      [] OTHER -> <<<<2, 1>>, <<1, 1>>, <<0, 1>>>>

\* the lines after SetShieldMode(mode), started with the lines at l
SetShieldMode(l, mode) ==
    gpio_write(l, <<<<6, 1>>, <<5, 1>>, <<4, 1>>, <<3, 1>>>> \o ModeWrites(mode))

GetShieldMode_Gen0First(lev) ==
    lev[0] * 64 + lev[1] * 32 + lev[2] * 16 + lev[3] * 8
      + lev[4] * 4 + lev[5] * 2 + lev[6]

\* the integer GetShieldMode forms from the seven levels read
GetShieldMode(lev) ==
    lev[6] * 64 + lev[5] * 32 + lev[4] * 16 + lev[3] * 8
      + lev[2] * 4 + lev[1] * 2 + lev[0]

AllLow == [g \in GEN |-> 0]

\* bcm2835_gpio_lev of the seven lines: what the board lets the pins read.
\* A faithful board reads what was driven, a wedged board holds the lines
\* low, a flaky board does either at every sample.
gpio_lev(board, l) ==
    CASE board = "faithful" -> {l}
      [] board = "wedged" -> {AllLow}
      [] OTHER -> {l, AllLow}

Boards == {"faithful", "flaky", "wedged"}

\* ------------------------------------------------------------------- state
VARIABLES
    pc,                \* "off", "ready", "verify", "exited"
    hw,                \* the board's latch behaviour
    lines,             \* levels driven on GPIO_GEN0..6
    internalRegister,  \* uint8_t[2]
    outputRegister1,   \* uint8_t[2]
    outputRegister2,   \* uint8_t[2]
    rebootcount,       \* persisted parameter shield.rebootcount
    sampling_count,    \* local of VerifyAndFixShieldMode
    vmode,             \* argument of the running VerifyAndFixShieldMode
    call,              \* the public call running or last returned
    ret,               \* its return value
    trace,             \* what that call did so far, in order
    calls,             \* pin-level calls made by this process
    rebooting,         \* "sudo reboot" was issued by the exited process
    reboots,           \* reboot commands issued since the counter was 0
    latched,           \* bytes the board latched in each output register mode
    written,           \* level of the last DigitalWrite issued for each pin
    entry,             \* output registers at the entry of the last DigitalWrite
    serialized,        \* the application takes a mutex around pin-level calls
    mutex,             \* the thread holding that mutex, 0 when free
    tpc,               \* each thread's position in its pin-level call
    tcall,             \* each thread's running or last pin-level call
    tcount,            \* each thread's sampling_count
    exch,              \* the last transport exchange made by a thread
    pending,           \* line writes of the running SetShieldMode still to do
    target,            \* argument of the last SetShieldMode run write by write
    origin,            \* mode the lines encoded when that SetShieldMode began
    barcode_value,     \* char[EMPLOYEE_ID_LENGTH] of ccd.c, as character codes
    barcode_id,        \* char[EMPLOYEE_ID_LENGTH] of ccd.c
    position,          \* index of the next character of the barcode
    ccd_locker,        \* 1 while the scanner is locked
    ccd_mode,          \* the static mode of ccd.c
    reports,           \* reports the monitor has received
    ccd_ev,            \* what the last monitor iteration or public call did
    buffer,            \* the struct Buffer: buf_len, data_len, and data
    buf_ret,           \* return value of the last BufferBinPush
    buf_ev,            \* the last Buffer call and what it did
    LogConfig,         \* the static struct LogConfig of log.c
    log_calls,         \* calls made into log.c
    log_ev             \* what the last call into log.c did to screen and file

vars == <<pc, hw, lines, internalRegister, outputRegister1, outputRegister2,
          rebootcount, sampling_count, vmode, call, ret, trace, calls,
          rebooting, reboots, latched, written, entry,
          serialized, mutex, tpc, tcall, tcount, exch,
          pending, target, origin,
          barcode_value, barcode_id, position, ccd_locker, ccd_mode, reports,
          ccd_ev, buffer, buf_ret, buf_ev, LogConfig, log_calls, log_ev>>

regs == <<internalRegister, outputRegister1, outputRegister2>>
verifier == <<sampling_count, vmode>>
\* the output latches of the board as this process has loaded them, <<>>
\* while it has transmitted nothing in that mode, and the callers' record
board == <<latched, written, entry>>
\* the callers' threads; one caller thread is the position pc alone
threads == <<serialized, mutex, tpc, tcall, tcount, exch>>
\* state of the process outside the single-threaded shield calls
\* a SetShieldMode observed after each of its line writes
switching == <<pending, target, origin>>
\* the barcode monitor of ccd.c
ccd == <<barcode_value, barcode_id, position, ccd_locker, ccd_mode, reports,
         ccd_ev>>
\* one Buffer of buffer.c and its caller
buf == <<buffer, buf_ret, buf_ev>>
\* the utility modules
\* the logger of log.c
logger == <<LogConfig, log_calls, log_ev>>
utilities == <<buf, logger>>
elsewhere == <<threads, switching, ccd, utilities>>
host == <<rebootcount, rebooting, reboots, hw, board, elsewhere>>

Ev(op, v, data) == [op |-> op, v |-> v, data |-> data]
Call(fn, a, b) == [fn |-> fn, a |-> a, b |-> b]

Threads == {1, 2}

\* no second thread: nobody is inside a pin-level call
ThreadsIdle ==
    /\ serialized = FALSE
    /\ mutex = 0
    /\ tpc = [t \in Threads |-> "idle"]
    /\ tcall = [t \in Threads |-> Call("none", 0, 0)]
    /\ tcount = [t \in Threads |-> 1]
    /\ exch = [t |-> 0, want |-> NONE, seen |-> NONE]

\* no SetShieldMode is observed write by write
SwitchingIdle ==
    /\ pending = <<>>
    /\ target = NONE
    /\ origin = NONE

EMPLOYEE_ID_LENGTH == 32
BARCODE_LENGTH == 31
CCD_NONE == 0
CCD_CHECK_IN == 1
CCD_TEST == 6

\* the static initialisers of ccd.c
CcdStatics ==
    /\ barcode_value = [i \in 0..(EMPLOYEE_ID_LENGTH - 1) |-> 0]
    /\ barcode_id = [i \in 0..(EMPLOYEE_ID_LENGTH - 1) |-> 0]
    /\ position = 0
    /\ ccd_locker = 0
    /\ ccd_mode = CCD_NONE
    /\ reports = 0
    /\ ccd_ev = <<>>

\* char *data == NULL.  malloc and realloc are called with two bytes or more
\* in buffer.c, so no allocated block is empty.
NULL == <<>>

\* a Buffer after BufferInit
BufferEmpty ==
    /\ buffer = [buf_len |-> 0, data_len |-> 0, data |-> NULL]
    /\ buf_ret = 0
    /\ buf_ev = [op |-> "BufferInit", len |-> 0, alloc |-> "none", write |-> {}]

DEFAULT_LOG_LIMIT == 1 * 1024 * 1024
TO_FILE == 0
TO_SCREEN == 1
TO_BOTH == 2
TO_NONE == 3
__LOG_DEBUG == 0
__LOG_NOTICE == 1
__LOG_WARNING == 2
__LOG_ERROR == 3

\* the initialiser of LogConfig gives its values in the order fp, fn, rotate,
\* backup, level and then TO_BOTH, DEFAULT_LOG_LIMIT, 0, while the fields
\* after level are declared in the order limit, cur, mode: C assigns the
\* values to the fields in the order of declaration.  fp is TRUE while a
\* file is open, rotate starts as BOOLEAN_FALSE, fn is not modelled.
LogStatics ==
    /\ LogConfig = [fp |-> FALSE, rotate |-> 0, backup |-> 1,
                    level |-> __LOG_DEBUG, limit |-> TO_BOTH,
                    cur |-> DEFAULT_LOG_LIMIT, mode |-> 0]
    /\ log_calls = 0
    /\ log_ev = <<>>

Elsewhere0 ==
    ThreadsIdle /\ SwitchingIdle /\ CcdStatics /\ BufferEmpty /\ LogStatics

\* the static initialisers of shield.c
Registers0 ==
    /\ internalRegister = [i \in 0..1 |-> 255]
    /\ outputRegister1 = [i \in 0..1 |-> 0]
    /\ outputRegister2 = [i \in 0..1 |-> 0]

Init ==
    /\ pc = "off"
    /\ hw \in Boards
    /\ lines = AllLow
    /\ Registers0
    /\ rebootcount = 0
    /\ sampling_count = 1
    /\ vmode = NONE
    /\ call = Call("none", 0, 0)
    /\ ret = 0
    /\ trace = <<>>
    /\ calls = 0
    /\ rebooting = FALSE
    /\ reboots = 0
    /\ latched = [m \in {OUTPUT_REG_1, OUTPUT_REG_2} |-> <<>>]
    /\ written = [p \in 1..20 |-> -1]
    /\ entry = [r1 |-> outputRegister1, r2 |-> outputRegister2]
    /\ Elsewhere0

\* ------------------------------------------------- VerifyAndFixShieldMode
\* while (GetShieldMode() != mode): the loop is left when the sample is mode
ModeReached_LowBits(s, mode) == s % 8 = mode % 8
ModeReached(s, mode) == s = mode

SamplingExceeded(n) == n > MAX_SAMPLING_RETRY_TIME

RebootExceeded_AtLimit(c) == c >= MAX_REBOOT_RETRY_TIME
RebootExceeded_PastLimit(c) == c > MAX_REBOOT_RETRY_TIME + 1
RebootExceeded(c) == c > MAX_REBOOT_RETRY_TIME

\* entry of VerifyAndFixShieldMode(mode): the locals are initialised
EnterVerify(mode) ==
    /\ pc' = "verify"
    /\ vmode' = mode
    /\ sampling_count' = 1

\* what the caller still does after VerifyAndFixShieldMode returned
AfterVerify(l) ==
    IF call.fn = "ShieldLibInit"
    THEN [lines |-> SetShieldMode(l, NONE), ev |-> <<Ev("set", NONE, <<>>)>>]
    ELSE [lines |-> l, ev |-> <<>>]

VerifyAndFixShieldMode_Resend ==
    /\ pc = "verify"
    /\ \E lev \in gpio_lev(hw, lines) :
         LET s == GetShieldMode(lev)
             sampled == Append(trace, Ev("sample", s, <<>>))
         IN  IF ModeReached(s, vmode)
             THEN /\ pc' = "ready"
                  /\ lines' = AfterVerify(lines).lines
                  /\ trace' = Append(sampled, Ev("vreturn", vmode, <<>>))
                                 \o AfterVerify(lines).ev
                  /\ UNCHANGED <<regs, verifier, host, call, ret, calls>>
             ELSE IF SamplingExceeded(sampling_count)
             THEN /\ pc' = "exited"
                  /\ IF RebootExceeded(rebootcount)
                     THEN /\ rebootcount' = 0
                          /\ rebooting' = FALSE
                          /\ reboots' = reboots
                          /\ trace' = sampled \o
                               <<Ev("getparam", rebootcount, <<>>),
                                 Ev("setparam", 0, <<>>),
                                 Ev("close", 0, <<>>),
                                 Ev("exit", 0, <<>>)>>
                     ELSE /\ rebootcount' = rebootcount + 1
                          /\ rebooting' = TRUE
                          /\ reboots' = reboots + 1
                          /\ trace' = sampled \o
                               <<Ev("getparam", rebootcount, <<>>),
                                 Ev("setparam", rebootcount + 1, <<>>),
                                 Ev("reboot", 0, <<>>),
                                 Ev("exit", 0, <<>>)>>
                  /\ UNCHANGED <<regs, verifier, hw, board, elsewhere, lines, call, ret,
                               calls>>
             ELSE /\ sampling_count' = sampling_count + 1
                  /\ lines' = SetShieldMode(lines, vmode)
                  /\ trace' = Append(sampled, Ev("set", vmode, <<>>))
                  /\ UNCHANGED <<pc, regs, vmode, host, call, ret, calls>>

\* one evaluation of the while condition and, when it holds, the loop body
VerifyAndFixShieldMode ==
    /\ pc = "verify"
    /\ \E lev \in gpio_lev(hw, lines) :
         LET s == GetShieldMode(lev)
             sampled == Append(trace, Ev("sample", s, <<>>))
         IN  IF ModeReached(s, vmode)
             THEN /\ pc' = "ready"
                  /\ lines' = AfterVerify(lines).lines
                  /\ trace' = Append(sampled, Ev("vreturn", vmode, <<>>))
                                 \o AfterVerify(lines).ev
                  /\ UNCHANGED <<regs, verifier, host, call, ret, calls>>
             ELSE IF SamplingExceeded(sampling_count)
             THEN /\ pc' = "exited"
                  /\ IF RebootExceeded(rebootcount)
                     THEN /\ rebootcount' = 0
                          /\ rebooting' = FALSE
                          /\ reboots' = reboots
                          /\ trace' = sampled \o
                               <<Ev("getparam", rebootcount, <<>>),
                                 Ev("setparam", 0, <<>>),
                                 Ev("close", 0, <<>>),
                                 Ev("exit", 0, <<>>)>>
                     ELSE /\ rebootcount' = rebootcount + 1
                          /\ rebooting' = TRUE
                          /\ reboots' = reboots + 1
                          /\ trace' = sampled \o
                               <<Ev("getparam", rebootcount, <<>>),
                                 Ev("setparam", rebootcount + 1, <<>>),
                                 Ev("reboot", 0, <<>>),
                                 Ev("exit", 0, <<>>)>>
                  /\ UNCHANGED <<regs, verifier, hw, board, elsewhere, lines, call, ret,
                               calls>>
             ELSE /\ sampling_count' = sampling_count + 1
                  /\ trace' = sampled
                  /\ UNCHANGED <<pc, regs, vmode, host, lines, call, ret, calls>>

\* the host comes up again after "sudo reboot": a new process, GPIO reset
Boot ==
    /\ pc = "exited"
    /\ rebooting
    /\ pc' = "off"
    /\ lines' = AllLow
    /\ internalRegister' = [i \in 0..1 |-> 255]
    /\ outputRegister1' = [i \in 0..1 |-> 0]
    /\ outputRegister2' = [i \in 0..1 |-> 0]
    /\ sampling_count' = 1
    /\ vmode' = NONE
    /\ call' = Call("none", 0, 0)
    /\ ret' = 0
    /\ trace' = <<>>
    /\ calls' = 0
    /\ rebooting' = FALSE
    /\ latched' = [m \in {OUTPUT_REG_1, OUTPUT_REG_2} |-> <<>>]
    /\ written' = [p \in 1..20 |-> -1]
    /\ entry' = [r1 |-> outputRegister1', r2 |-> outputRegister2']
    /\ UNCHANGED <<hw, rebootcount, reboots, elsewhere>>

\* ------------------------------------------------------------ ShieldLibInit
ShieldLibInit_SkipAllLow ==
    /\ pc = "off"
    /\ call' = Call("ShieldLibInit", 0, 0)
    /\ \E bcm2835_init \in BOOLEAN :
         IF ~bcm2835_init
         THEN /\ ret' = 0
              /\ trace' = <<>>
              /\ UNCHANGED <<pc, lines, regs, verifier, host, calls>>
         ELSE /\ ret' = 1
              /\ lines' = SetShieldMode(lines, ADC)
              /\ trace' = <<Ev("loadcfg", 0, <<>>),
                            Ev("set", ADC, <<>>),
                            Ev("verify", ADC, <<>>)>>
              /\ EnterVerify(ADC)
              /\ UNCHANGED <<regs, host, calls>>

ShieldLibInit ==
    /\ pc = "off"
    /\ call' = Call("ShieldLibInit", 0, 0)
    /\ \E bcm2835_init \in BOOLEAN :
         IF ~bcm2835_init
         THEN /\ ret' = 0
              /\ trace' = <<>>
              /\ UNCHANGED <<pc, lines, regs, verifier, host, calls>>
         ELSE /\ ret' = 1
              /\ lines' = SetShieldMode(SetShieldMode(lines, INIT_ALL_LOW), ADC)
              /\ trace' = <<Ev("loadcfg", 0, <<>>),
                            Ev("set", INIT_ALL_LOW, <<>>),
                            Ev("set", ADC, <<>>),
                            Ev("verify", ADC, <<>>)>>
              /\ EnterVerify(ADC)
              /\ UNCHANGED <<regs, host, calls>>

\* ------------------------------------------------------------------ PinMode
PinModeUpdate_SpiOnNine(reg, pin_number, mode) ==
    IF mode = DIO
    THEN IF pin_number < 9
         THEN [ok |-> TRUE,
               reg |-> [reg EXCEPT ![1] =
                          AndNotAssign(reg[1], CHOOSE m \in Shl1(pin_number - 1) : TRUE)]]
         ELSE [ok |-> TRUE,
               reg |-> [reg EXCEPT ![0] =
                          AndNotAssign(reg[0], CHOOSE m \in Shl1(pin_number - 9) : TRUE)]]
    ELSE IF mode = SPI
    THEN IF pin_number < 10
         THEN [ok |-> TRUE,
               reg |-> [reg EXCEPT ![1] =
                          OrAssign(reg[1], CHOOSE m \in Shl1(pin_number - 1) : TRUE)]]
         ELSE [ok |-> FALSE, reg |-> reg]
    ELSE IF mode = SIO
    THEN IF pin_number = 10
         THEN [ok |-> TRUE,
               reg |-> [reg EXCEPT ![0] =
                          OrAssign(reg[0], CHOOSE m \in Shl1(pin_number - 1) : TRUE)]]
         ELSE [ok |-> FALSE, reg |-> reg]
    ELSE [ok |-> TRUE, reg |-> reg]

PinModeUpdate_BitOff(reg, pin_number, mode) ==
    IF mode = DIO
    THEN IF pin_number < 9
         THEN [ok |-> TRUE,
               reg |-> [reg EXCEPT ![1] =
                          AndNotAssign(reg[1], CHOOSE m \in Shl1(pin_number - 1) : TRUE)]]
         ELSE [ok |-> TRUE,
               reg |-> [reg EXCEPT ![0] =
                          AndNotAssign(reg[0], CHOOSE m \in Shl1(pin_number - 9) : TRUE)]]
    ELSE IF mode = SPI
    THEN IF pin_number < 9
         THEN [ok |-> TRUE,
               reg |-> [reg EXCEPT ![1] =
                          OrAssign(reg[1], CHOOSE m \in Shl1(pin_number) : TRUE)]]
         ELSE [ok |-> FALSE, reg |-> reg]
    ELSE IF mode = SIO
    THEN IF pin_number = 10
         THEN [ok |-> TRUE,
               reg |-> [reg EXCEPT ![0] =
                          OrAssign(reg[0], CHOOSE m \in Shl1(pin_number - 1) : TRUE)]]
         ELSE [ok |-> FALSE, reg |-> reg]
    ELSE [ok |-> TRUE, reg |-> reg]

\* the if / else-if chain on mode: the register after it, or a rejection
PinModeUpdate(reg, pin_number, mode) ==
    IF mode = DIO
    THEN IF pin_number < 9
         THEN [ok |-> TRUE,
               reg |-> [reg EXCEPT ![1] =
                          AndNotAssign(reg[1], CHOOSE m \in Shl1(pin_number - 1) : TRUE)]]
         ELSE [ok |-> TRUE,
               reg |-> [reg EXCEPT ![0] =
                          AndNotAssign(reg[0], CHOOSE m \in Shl1(pin_number - 9) : TRUE)]]
    ELSE IF mode = SPI
    THEN IF pin_number < 9
         THEN [ok |-> TRUE,
               reg |-> [reg EXCEPT ![1] =
                          OrAssign(reg[1], CHOOSE m \in Shl1(pin_number - 1) : TRUE)]]
         ELSE [ok |-> FALSE, reg |-> reg]
    ELSE IF mode = SIO
    THEN IF pin_number = 10
         THEN [ok |-> TRUE,
               reg |-> [reg EXCEPT ![0] =
                          OrAssign(reg[0], CHOOSE m \in Shl1(pin_number - 1) : TRUE)]]
         ELSE [ok |-> FALSE, reg |-> reg]
    ELSE [ok |-> TRUE, reg |-> reg]

PinMode_StaleTransmit(pin_number, mode) ==
    /\ pc = "ready"
    /\ calls < MaxCalls
    /\ calls' = calls + 1
    /\ call' = Call("PinMode", pin_number, mode)
    /\ IF pin_number > 10 \/ pin_number < 1
       THEN /\ ret' = -1
            /\ trace' = <<>>
            /\ UNCHANGED <<pc, lines, regs, verifier, host>>
       ELSE LET u == PinModeUpdate(internalRegister, pin_number, mode)
            IN  IF ~u.ok
                THEN /\ ret' = -1
                     /\ lines' = SetShieldMode(lines, NONE)
                     /\ trace' = <<Ev("set", NONE, <<>>), Ev("verify", NONE, <<>>)>>
                     /\ EnterVerify(NONE)
                     /\ UNCHANGED <<regs, host>>
                ELSE /\ ret' = 0
                     /\ internalRegister' = u.reg
                     /\ lines' = SetShieldMode(lines, INTERNAL_REG)
                     /\ trace' = <<Ev("set", INTERNAL_REG, <<>>),
                                   Ev("tx", GetShieldMode(lines'),
                                      <<internalRegister[0], internalRegister[1]>>)>>
                     /\ UNCHANGED <<pc, outputRegister1, outputRegister2,
                                    verifier, host>>

PinMode(pin_number, mode) ==
    /\ pc = "ready"
    /\ calls < MaxCalls
    /\ calls' = calls + 1
    /\ call' = Call("PinMode", pin_number, mode)
    /\ IF pin_number > 10 \/ pin_number < 1
       THEN /\ ret' = -1
            /\ trace' = <<>>
            /\ UNCHANGED <<pc, lines, regs, verifier, host>>
       ELSE LET u == PinModeUpdate(internalRegister, pin_number, mode)
            IN  IF ~u.ok
                THEN /\ ret' = -1
                     /\ lines' = SetShieldMode(lines, NONE)
                     /\ trace' = <<Ev("set", NONE, <<>>), Ev("verify", NONE, <<>>)>>
                     /\ EnterVerify(NONE)
                     /\ UNCHANGED <<regs, host>>
                ELSE /\ ret' = 0
                     /\ internalRegister' = u.reg
                     /\ lines' = SetShieldMode(lines, INTERNAL_REG)
                     /\ trace' = <<Ev("set", INTERNAL_REG, <<>>),
                                   Ev("tx", GetShieldMode(lines'), <<u.reg[0], u.reg[1]>>)>>
                     /\ UNCHANGED <<pc, outputRegister1, outputRegister2,
                                    verifier, host>>

\* ------------------------------------------------------------- DigitalWrite
WriteBit_Assign(reg, i, n, value, m) ==
    [reg EXCEPT ![i] = IF value = 1 THEN U8(m)
                       ELSE AndNotAssign(reg[i], m)]

WriteBit_ClearByte(reg, i, n, value, m) ==
    [reg EXCEPT ![i] = IF value = 1 THEN OrAssign(reg[i], m) ELSE 0]

\* reg[i] |= 1 << n  when value is HIGH,  reg[i] &= ~(1 << n)  otherwise
WriteBit(reg, i, n, value, m) ==
    [reg EXCEPT ![i] = IF value = 1 THEN OrAssign(reg[i], m)
                       ELSE AndNotAssign(reg[i], m)]

TransmitRegister_Register1(mode, reg) ==
    /\ lines' = SetShieldMode(SetShieldMode(lines, OUTPUT_REG_1), NONE)
    /\ trace' = <<Ev("set", OUTPUT_REG_1, <<>>),
                  Ev("tx", GetShieldMode(SetShieldMode(lines, OUTPUT_REG_1)),
                     <<reg[0], reg[1]>>),
                  Ev("set", NONE, <<>>),
                  Ev("verify", NONE, <<>>)>>
    /\ latched' = [latched EXCEPT
                     ![GetShieldMode(SetShieldMode(lines, OUTPUT_REG_1))] = <<reg[0], reg[1]>>]
    /\ EnterVerify(NONE)

\* set the register's mode, transmit it, go back to NONE and verify
TransmitRegister(mode, reg) ==
    /\ lines' = SetShieldMode(SetShieldMode(lines, mode), NONE)
    /\ trace' = <<Ev("set", mode, <<>>),
                  Ev("tx", GetShieldMode(SetShieldMode(lines, mode)),
                     <<reg[0], reg[1]>>),
                  Ev("set", NONE, <<>>),
                  Ev("verify", NONE, <<>>)>>
    /\ latched' = [latched EXCEPT
                     ![GetShieldMode(SetShieldMode(lines, mode))] = <<reg[0], reg[1]>>]
    /\ EnterVerify(NONE)

\* the callers' record of a DigitalWrite that reached one of the pin branches
Issued(pin_number, value) ==
    /\ written' = [p \in 1..20 |-> IF p = pin_number THEN value ELSE written[p]]
    /\ entry' = [r1 |-> outputRegister1, r2 |-> outputRegister2]

DigitalWrite(pin_number, value) ==
    /\ pc = "ready"
    /\ calls < MaxCalls
    /\ calls' = calls + 1
    /\ call' = Call("DigitalWrite", pin_number, value)
    /\ IF pin_number <= 8
       THEN \E m \in Shl1(pin_number - 1) :
              /\ outputRegister1' = WriteBit(outputRegister1, 1, pin_number - 1, value, m)
              /\ TransmitRegister(OUTPUT_REG_1, outputRegister1')
              /\ ret' = 0
              /\ Issued(pin_number, value)
              /\ UNCHANGED <<internalRegister, outputRegister2,
                             rebootcount, rebooting, reboots, hw,
                             elsewhere>>
       ELSE IF pin_number >= 9 /\ pin_number <= 16
       THEN \E m \in Shl1(pin_number - 9) :
              /\ outputRegister1' = WriteBit(outputRegister1, 0, pin_number - 9, value, m)
              /\ TransmitRegister(OUTPUT_REG_1, outputRegister1')
              /\ ret' = 0
              /\ Issued(pin_number, value)
              /\ UNCHANGED <<internalRegister, outputRegister2,
                             rebootcount, rebooting, reboots, hw,
                             elsewhere>>
       ELSE IF pin_number >= 17 /\ pin_number <= 20
       THEN \E m \in Shl1(pin_number - 17) :
              /\ outputRegister2' = WriteBit(outputRegister2, 1, pin_number - 17, value, m)
              /\ TransmitRegister(OUTPUT_REG_2, outputRegister2')
              /\ ret' = 0
              /\ Issued(pin_number, value)
              /\ UNCHANGED <<internalRegister, outputRegister1,
                             rebootcount, rebooting, reboots, hw,
                             elsewhere>>
       ELSE /\ lines' = SetShieldMode(lines, NONE)
            /\ trace' = <<Ev("set", NONE, <<>>), Ev("verify", NONE, <<>>)>>
            /\ EnterVerify(NONE)
            /\ ret' = -1
            /\ UNCHANGED <<regs, host>>

\* -------------------------------------------------------------- DigitalRead
\* getBit(x,n) ((x >> (n-1)) & 1); n = 0 shifts by the wrapped count, which
\* is undefined: the ARM and x86 builds both shift every bit of a byte out
getBit(x, n) == IF n - 1 \in 0..31 THEN {(x \div (2 ^ (n - 1))) % 2} ELSE {0}

DigitalReadResult_Stored(inputRegister, pin_number) ==
    IF pin_number <= 8 THEN getBit(outputRegister1[1], pin_number)
    ELSE IF pin_number <= 10 THEN getBit(inputRegister[0], pin_number - 8)
    ELSE {-1}

\* the value DigitalRead returns for the two bytes read into inputRegister
DigitalReadResult(inputRegister, pin_number) ==
    IF pin_number <= 8 THEN getBit(inputRegister[1], pin_number)
    ELSE IF pin_number <= 10 THEN getBit(inputRegister[0], pin_number - 8)
    ELSE {-1}

DigitalRead(pin_number, inputRegister) ==
    /\ pc = "ready"
    /\ calls < MaxCalls
    /\ calls' = calls + 1
    /\ call' = Call("DigitalRead", pin_number, 0)
    /\ lines' = SetShieldMode(SetShieldMode(lines, INPUT_REG), NONE)
    /\ trace' = <<Ev("set", INPUT_REG, <<>>),
                  Ev("xfer", GetShieldMode(SetShieldMode(lines, INPUT_REG)),
                     <<inputRegister[0], inputRegister[1]>>),
                  Ev("set", NONE, <<>>),
                  Ev("verify", NONE, <<>>)>>
    /\ EnterVerify(NONE)
    /\ ret' \in DigitalReadResult(inputRegister, pin_number)
    /\ UNCHANGED <<regs, host>>

\* --------------------------------------------------------------- AnalogRead
adcConversion == <<134, 142, 150, 158, 166, 174, 182, 190>>

LowNibble_FiveBits(x) == x % 32

\* x & 0x0F on a byte
LowNibble(x) == x % 16

AnalogRead_SelectFirst(port_num, rbuf) ==
    /\ pc = "ready"
    /\ calls < MaxCalls
    /\ calls' = calls + 1
    /\ call' = Call("AnalogRead", port_num, 0)
    /\ IF port_num > 7
       THEN /\ ret' = 0
            /\ lines' = SetShieldMode(lines, ADC)
            /\ trace' = <<Ev("set", ADC, <<>>)>>
            /\ UNCHANGED <<pc, regs, verifier, host>>
       ELSE LET result == rbuf[0] * 256 + rbuf[1]
                adc == SetShieldMode(lines, ADC)
                exchange == <<Ev("set", ADC, <<>>),
                              Ev("xfer", GetShieldMode(adc),
                                 <<adcConversion[port_num + 1]>>),
                              Ev("xfer", GetShieldMode(adc), <<rbuf[0], rbuf[1]>>)>>
            IN  IF result > ADC_MAXIMUM
                THEN /\ ret' = LowNibble(rbuf[0]) * 256 + rbuf[1]
                     /\ lines' = adc
                     /\ trace' = exchange
                     /\ UNCHANGED <<pc, regs, verifier, host>>
                ELSE /\ ret' = result
                     /\ lines' = SetShieldMode(adc, NONE)
                     /\ trace' = exchange \o
                          <<Ev("set", NONE, <<>>), Ev("verify", NONE, <<>>)>>
                     /\ EnterVerify(NONE)
                     /\ UNCHANGED <<regs, host>>

AnalogRead_RestoreAlways(port_num, rbuf) ==
    /\ pc = "ready"
    /\ calls < MaxCalls
    /\ calls' = calls + 1
    /\ call' = Call("AnalogRead", port_num, 0)
    /\ IF port_num > 7
       THEN /\ ret' = 0
            /\ trace' = <<>>
            /\ UNCHANGED <<pc, lines, regs, verifier, host>>
       ELSE LET result == rbuf[0] * 256 + rbuf[1]
                adc == SetShieldMode(lines, ADC)
                exchange == <<Ev("set", ADC, <<>>),
                              Ev("xfer", GetShieldMode(adc),
                                 <<adcConversion[port_num + 1]>>),
                              Ev("xfer", GetShieldMode(adc), <<rbuf[0], rbuf[1]>>)>>
            IN  IF result > ADC_MAXIMUM
                THEN /\ ret' = LowNibble(rbuf[0]) * 256 + rbuf[1]
                     /\ lines' = SetShieldMode(adc, NONE)
                     /\ trace' = exchange \o
                          <<Ev("set", NONE, <<>>), Ev("verify", NONE, <<>>)>>
                     /\ EnterVerify(NONE)
                     /\ UNCHANGED <<regs, host>>
                ELSE /\ ret' = result
                     /\ lines' = SetShieldMode(adc, NONE)
                     /\ trace' = exchange \o
                          <<Ev("set", NONE, <<>>), Ev("verify", NONE, <<>>)>>
                     /\ EnterVerify(NONE)
                     /\ UNCHANGED <<regs, host>>

AnalogRead(port_num, rbuf) ==
    /\ pc = "ready"
    /\ calls < MaxCalls
    /\ calls' = calls + 1
    /\ call' = Call("AnalogRead", port_num, 0)
    /\ IF port_num > 7
       THEN /\ ret' = 0
            /\ trace' = <<>>
            /\ UNCHANGED <<pc, lines, regs, verifier, host>>
       ELSE LET result == rbuf[0] * 256 + rbuf[1]
                adc == SetShieldMode(lines, ADC)
                exchange == <<Ev("set", ADC, <<>>),
                              Ev("xfer", GetShieldMode(adc),
                                 <<adcConversion[port_num + 1]>>),
                              Ev("xfer", GetShieldMode(adc), <<rbuf[0], rbuf[1]>>)>>
            IN  IF result > ADC_MAXIMUM
                THEN /\ ret' = LowNibble(rbuf[0]) * 256 + rbuf[1]
                     /\ lines' = adc
                     /\ trace' = exchange
                     /\ UNCHANGED <<pc, regs, verifier, host>>
                ELSE /\ ret' = result
                     /\ lines' = SetShieldMode(adc, NONE)
                     /\ trace' = exchange \o
                          <<Ev("set", NONE, <<>>), Ev("verify", NONE, <<>>)>>
                     /\ EnterVerify(NONE)
                     /\ UNCHANGED <<regs, host>>

\* -------------------------------------------------------------- AnalogWrite
\* dac = (float)mv_value * 1.8363228: the product, exact to seven decimals,
\* is n + f / 10^7; the assignment to a float keeps 24 significant bits,
\* i.e. k = 23 - floor(log2 n) fraction bits, rounded to nearest.
RECURSIVE Log2(_)
Log2(n) == IF n < 2 THEN 0 ELSE 1 + Log2(n \div 2)

\* <<floor(f * 2^k / 10^7), remainder>>, one binary digit at a time
RECURSIVE FractionBits(_, _)
FractionBits(f, k) ==
    IF k = 0 THEN <<0, f>>
    ELSE LET h == FractionBits(f, k - 1)
             d == IF 2 * h[2] >= 10000000 THEN 1 ELSE 0
         IN  <<2 * h[1] + d, 2 * h[2] - d * 10000000>>

\* the float dac as [n, q, k]: dac = n + q / 2^k
DacFloat(mv_value) ==
    LET a == mv_value * 8363
        t == (a % 10000) * 1000 + mv_value * 228
        n == mv_value + (a \div 10000) + (t \div 10000000)
        f == t % 10000000
        k == 23 - Log2(n)
        h == FractionBits(f, k)
        q == IF 2 * h[2] > 10000000 \/ (2 * h[2] = 10000000 /\ h[1] % 2 = 1)
             THEN h[1] + 1 ELSE h[1]
    IN  IF q = 2 ^ k THEN [n |-> n + 1, q |-> 0, k |-> k]
        ELSE [n |-> n, q |-> q, k |-> k]

DacCommand_NoClamp(adc_addr, mv_value) ==
    LET addr == IF adc_addr > 1 THEN 1 ELSE adc_addr
        dac == DacFloat(mv_value)
        rounded == IF 2 * dac.q >= 2 ^ dac.k THEN dac.n + 1 ELSE dac.n
    IN  <<(48 + addr) % 256, (dac.n \div 16) % 256, ((rounded % 16) * 16) % 256>>

\* the three bytes of adc_cmd after the boundary checks
DacCommand(adc_addr, mv_value) ==
    LET mv == IF mv_value > 2230 THEN 2230 ELSE mv_value
        addr == IF adc_addr > 1 THEN 1 ELSE adc_addr
        dac == DacFloat(mv)
        rounded == IF 2 * dac.q >= 2 ^ dac.k THEN dac.n + 1 ELSE dac.n
    IN  <<(48 + addr) % 256, (dac.n \div 16) % 256, ((rounded % 16) * 16) % 256>>

AnalogWrite_CommandInAdc(adc_addr, mv_value) ==
    /\ pc = "ready"
    /\ calls < MaxCalls
    /\ calls' = calls + 1
    /\ call' = Call("AnalogWrite", adc_addr, mv_value)
    /\ LET adc == SetShieldMode(lines, ADC)
           dac == SetShieldMode(adc, DAC)
       IN  /\ lines' = SetShieldMode(dac, NONE)
           /\ trace' = <<Ev("set", ADC, <<>>),
                         Ev("tx", GetShieldMode(adc), <<48>>),
                         Ev("tx", GetShieldMode(adc), <<48>>),
                         Ev("xfer", GetShieldMode(adc), <<0, 0>>),
                         Ev("tx", GetShieldMode(adc), DacCommand(adc_addr, mv_value)),
                         Ev("set", DAC, <<>>),
                         Ev("set", NONE, <<>>),
                         Ev("verify", NONE, <<>>)>>
    /\ EnterVerify(NONE)
    /\ ret' = 0
    /\ UNCHANGED <<regs, host>>

AnalogWrite(adc_addr, mv_value) ==
    /\ pc = "ready"
    /\ calls < MaxCalls
    /\ calls' = calls + 1
    /\ call' = Call("AnalogWrite", adc_addr, mv_value)
    /\ LET adc == SetShieldMode(lines, ADC)
           dac == SetShieldMode(adc, DAC)
       IN  /\ lines' = SetShieldMode(dac, NONE)
           /\ trace' = <<Ev("set", ADC, <<>>),
                         Ev("tx", GetShieldMode(adc), <<48>>),
                         Ev("tx", GetShieldMode(adc), <<48>>),
                         Ev("xfer", GetShieldMode(adc), <<0, 0>>),
                         Ev("set", DAC, <<>>),
                         Ev("tx", GetShieldMode(dac), DacCommand(adc_addr, mv_value)),
                         Ev("set", NONE, <<>>),
                         Ev("verify", NONE, <<>>)>>
    /\ EnterVerify(NONE)
    /\ ret' = 0
    /\ UNCHANGED <<regs, host>>

\* ------------------------------------------------------------ ShieldLibClose
ShieldLibClose ==
    /\ pc = "ready"
    /\ pc' = "off"
    /\ call' = Call("ShieldLibClose", 0, 0)
    /\ ret' = 0
    /\ trace' = <<Ev("close", 0, <<>>)>>
    /\ UNCHANGED <<lines, regs, verifier, host, calls>>

\* ---------------------------------------------------------------- RPC names
\* A C string is the sequence of its characters, each a one-character string.
Digits == <<"0", "1", "2", "3", "4", "5", "6", "7", "8", "9">>

IsDigit(c) == \E d \in 1..10 : Digits[d] = c
DigitValue(c) == (CHOOSE d \in 1..10 : Digits[d] = c) - 1

RECURSIVE AtoiDigits(_, _)
AtoiDigits(s, acc) ==
    IF s # <<>> /\ IsDigit(Head(s))
    THEN AtoiDigits(Tail(s), acc * 10 + DigitValue(Head(s)))
    ELSE acc

\* atoi of a string without leading white space or sign: the value of the
\* leading digits, 0 when there is none
atoi(s) == AtoiDigits(s, 0)

\* what lies behind the terminator of a string that is shorter than the
\* offset read from: any characters
StrayChars == {<<>>, <<"1", "5">>, <<"x", "y">>}

\* strncpy(dst, param + off, n); dst[n] = '\0': the string left in dst.  With
\* off beyond the terminator of param the read is undefined.
strncpy(param, off, n) ==
    IF off <= Len(param)
    THEN {SubSeq(param, off + 1, IF off + n <= Len(param) THEN off + n ELSE Len(param))}
    ELSE {SubSeq(g, 1, IF n <= Len(g) THEN n ELSE Len(g)) : g \in StrayChars}

\* the tokens successive strtok(_, ".") calls return: the maximal runs of
\* characters other than "."
RECURSIVE strtok(_, _)
strtok(s, cur) ==
    IF s = <<>> THEN (IF cur = <<>> THEN <<>> ELSE <<cur>>)
    ELSE IF Head(s) = "."
    THEN (IF cur = <<>> THEN <<>> ELSE <<cur>>) \o strtok(Tail(s), <<>>)
    ELSE strtok(Tail(s), Append(cur, Head(s)))

\* 0 == strncmp(name, value, n): value starts with the first n characters of
\* name (no name used here is shorter than n)
StartsWith(value, name, n) ==
    Len(value) >= n /\ SubSeq(value, 1, n) = SubSeq(name, 1, n)

\* the mode RpcChangeMode derives from value; the initialiser is SPI
ModeOfValue(value) ==
    IF StartsWith(value, <<"d", "i", "o">>, 1) THEN DIO
    ELSE IF StartsWith(value, <<"s", "p", "i">>, 2) THEN SPI
    ELSE IF StartsWith(value, <<"s", "i", "o">>, 2) THEN SIO
    ELSE SPI

PinDigitalOut_Swapped(port, pin_num) ==
    IF pin_num = 2 THEN 2 * (port - 11) + 2 ELSE 2 * (port - 11) + 1

\* enum PinDigitalOut: CNpp_2 and CNpp_4 for the ports 11..20
PinDigitalOut(port, pin_num) ==
    IF pin_num = 2 THEN 2 * (port - 11) + 1 ELSE 2 * (port - 11) + 2

\* values an uninitialised pin_map_num may hold
UninitPins == {0, 1, 20, 21}

\* the switch on port_str[1] of RpcPinWrite and the two ifs of each case:
\* the pin numbers pin_map_num may hold, none when the default label returns
PinMapNum(c, pin_num) ==
    IF ~IsDigit(c) THEN {}
    ELSE IF pin_num \in {2, 4}
    THEN {PinDigitalOut(IF c = "0" THEN 20 ELSE 10 + DigitValue(c), pin_num)}
    ELSE UninitPins

\* PinMode called from l with the register at reg: what it returns, the lines
\* and register it leaves, its events, and whether it ends in the verifier
PinModeEffect(l, reg, pin_number, mode) ==
    IF pin_number > 10 \/ pin_number < 1
    THEN [ret |-> -1, lines |-> l, reg |-> reg, ev |-> <<>>, verify |-> FALSE]
    ELSE LET u == PinModeUpdate(reg, pin_number, mode)
         IN  IF ~u.ok
             THEN [ret |-> -1, lines |-> SetShieldMode(l, NONE), reg |-> reg,
                   ev |-> <<Ev("set", NONE, <<>>), Ev("verify", NONE, <<>>)>>,
                   verify |-> TRUE]
             ELSE [ret |-> 0, lines |-> SetShieldMode(l, INTERNAL_REG), reg |-> u.reg,
                   ev |-> <<Ev("set", INTERNAL_REG, <<>>),
                            Ev("tx", GetShieldMode(SetShieldMode(l, INTERNAL_REG)),
                               <<u.reg[0], u.reg[1]>>)>>,
                   verify |-> FALSE]

\* DigitalWrite called from l with the output registers at r1, r2, up to its
\* call of VerifyAndFixShieldMode(NONE)
DigitalWriteEffect(l, r1, r2, pin_number, value) ==
    LET sent(mode, reg) ==
          <<Ev("set", mode, <<>>),
            Ev("tx", GetShieldMode(SetShieldMode(l, mode)), <<reg[0], reg[1]>>),
            Ev("set", NONE, <<>>),
            Ev("verify", NONE, <<>>)>>
        done(mode, n1, n2) ==
          [ret |-> 0, lines |-> SetShieldMode(SetShieldMode(l, mode), NONE),
           r1 |-> n1, r2 |-> n2, mode |-> mode,
           ev |-> sent(mode, IF mode = OUTPUT_REG_1 THEN n1 ELSE n2)]
    IN  IF pin_number <= 8
        THEN {done(OUTPUT_REG_1, WriteBit(r1, 1, pin_number - 1, value, m), r2) :
                m \in Shl1(pin_number - 1)}
        ELSE IF pin_number >= 9 /\ pin_number <= 16
        THEN {done(OUTPUT_REG_1, WriteBit(r1, 0, pin_number - 9, value, m), r2) :
                m \in Shl1(pin_number - 9)}
        ELSE IF pin_number >= 17 /\ pin_number <= 20
        THEN {done(OUTPUT_REG_2, r1, WriteBit(r2, 1, pin_number - 17, value, m)) :
                m \in Shl1(pin_number - 17)}
        ELSE {[ret |-> -1, lines |-> SetShieldMode(l, NONE), r1 |-> r1, r2 |-> r2,
               mode |-> NONE,
               ev |-> <<Ev("set", NONE, <<>>), Ev("verify", NONE, <<>>)>>]}

\* ------------------------------------------------------------ RpcChangeMode
RpcChangeMode(param, value) ==
    /\ pc = "ready"
    /\ calls < MaxCalls
    /\ calls' = calls + 1
    /\ call' = Call("RpcChangeMode", param, value)
    /\ \E port_str \in strncpy(param, 9, 2) :
         LET port_num == atoi(port_str) - 10
             e == PinModeEffect(lines, internalRegister, port_num, ModeOfValue(value))
         IN  /\ ret' = e.ret
             /\ lines' = e.lines
             /\ internalRegister' = e.reg
             /\ trace' = e.ev
             /\ IF e.verify THEN EnterVerify(NONE) ELSE UNCHANGED <<pc, verifier>>
    /\ UNCHANGED <<outputRegister1, outputRegister2, host>>

\* ----------------------------------------------------------- RpcDigitalRead
RpcDigitalRead(param, inputRegister) ==
    /\ pc = "ready"
    /\ calls < MaxCalls
    /\ calls' = calls + 1
    /\ call' = Call("RpcDigitalRead", param, 0)
    /\ \E port_char \in strncpy(param, 10, 1) :
         LET port_num == IF atoi(port_char) = 0 THEN 10 ELSE atoi(port_char)
             e == PinModeEffect(lines, internalRegister, port_num, DIO)
             input == SetShieldMode(e.lines, INPUT_REG)
         IN  /\ internalRegister' = e.reg
             /\ IF e.ret = -1
                THEN /\ ret' = -1
                     /\ lines' = e.lines
                     /\ trace' = e.ev
                     /\ IF e.verify THEN EnterVerify(NONE)
                        ELSE UNCHANGED <<pc, verifier>>
                ELSE /\ ret' \in DigitalReadResult(inputRegister, port_num)
                     /\ lines' = SetShieldMode(input, NONE)
                     /\ trace' = e.ev \o
                          <<Ev("set", INPUT_REG, <<>>),
                            Ev("xfer", GetShieldMode(input),
                               <<inputRegister[0], inputRegister[1]>>),
                            Ev("set", NONE, <<>>),
                            Ev("verify", NONE, <<>>)>>
                     /\ EnterVerify(NONE)
    /\ UNCHANGED <<outputRegister1, outputRegister2, host>>

\* -------------------------------------------------------------- RpcPinWrite
\* The names passed have single "." delimiters and a second field of at least
\* three characters, so that port_str[1] lies inside that field or on its
\* terminator.  A name with fewer than three fields makes strtok return NULL
\* for port_str or pin_str, which atoi(pin_str) or port_str[1] dereferences:
\* the process is killed by SIGSEGV.
RpcPinWrite(param, value) ==
    /\ pc = "ready"
    /\ calls < MaxCalls
    /\ calls' = calls + 1
    /\ call' = Call("RpcPinWrite", param, value)
    /\ LET value_num == atoi(value)
           fields == strtok(param, <<>>)
           port_str == SubSeq(fields[2], 3, Len(fields[2]))
           pins == PinMapNum(IF Len(port_str) >= 2 THEN port_str[2] ELSE "", atoi(fields[3]))
       IN  IF \/ param = <<>>
              \/ Head(param) = "g"
              \/ value_num \notin {0, 1}
              \/ fields = <<>>
           THEN /\ ret' = -1
                /\ trace' = <<>>
                /\ UNCHANGED <<pc, lines, regs, verifier, host>>
           ELSE IF Len(fields) < 3
           THEN /\ pc' = "exited"
                /\ trace' = <<Ev("segv", 0, <<>>)>>
                /\ UNCHANGED <<ret, lines, regs, verifier, host>>
           ELSE IF pins = {}
           THEN /\ ret' = -1
                /\ trace' = <<>>
                /\ UNCHANGED <<pc, lines, regs, verifier, host>>
           ELSE \E pin_map_num \in pins :
                  LET e == PinModeEffect(lines, internalRegister,
                                         atoi(port_str) - 10, DIO)
                  IN  \E w \in DigitalWriteEffect(e.lines, outputRegister1,
                                                  outputRegister2, pin_map_num,
                                                  value_num) :
                        /\ internalRegister' = e.reg
                        /\ outputRegister1' = w.r1
                        /\ outputRegister2' = w.r2
                        /\ lines' = w.lines
                        /\ trace' = e.ev \o w.ev
                        /\ EnterVerify(NONE)
                        /\ ret' = w.ret
                        /\ IF w.ret = 0
                           THEN /\ Issued(pin_map_num, value_num)
                                /\ latched' = [latched EXCEPT ![w.mode] =
                                     IF w.mode = OUTPUT_REG_1
                                     THEN <<w.r1[0], w.r1[1]>>
                                     ELSE <<w.r2[0], w.r2[1]>>]
                           ELSE UNCHANGED board
                        /\ UNCHANGED <<rebootcount, rebooting, reboots, hw, elsewhere>>

\* ------------------------------------------- SetShieldMode, write by write
\* every bcm2835_gpio_write of SetShieldMode(mode), in program order
LineWrites(mode) == <<<<6, 1>>, <<5, 1>>, <<4, 1>>, <<3, 1>>>> \o ModeWrites(mode)

\* SetShieldMode(mode) is called while the lines rest
SwitchBegin(mode) ==
    /\ pc = "ready"
    /\ pending = <<>>
    /\ pending' = LineWrites(mode)
    /\ target' = mode
    /\ origin' = GetShieldMode(lines)
    /\ UNCHANGED <<pc, lines, regs, verifier, call, ret, trace, calls,
                   rebootcount, rebooting, reboots, hw, board, threads, ccd, utilities>>

\* the next bcm2835_gpio_write of the running SetShieldMode
LineWrite ==
    /\ pc = "ready"
    /\ pending # <<>>
    /\ lines' = gpio_write(lines, <<Head(pending)>>)
    /\ pending' = Tail(pending)
    /\ UNCHANGED <<pc, regs, verifier, call, ret, trace, calls,
                   rebootcount, rebooting, reboots, hw, board, threads, ccd, utilities,
                   target, origin>>

\* ------------------------------------------------ two threads, pin-level
\* Pin-level calls of two application threads, interleaved between the
\* SetShieldMode calls and the transport exchange of DigitalWrite and
\* DigitalRead.  The lines and the registers are the statics of shield.c,
\* shared by the threads; the mutex is the callers', shield.c has none.
DedicatedMode(c) ==
    IF c.fn = "DigitalRead" THEN INPUT_REG
    ELSE IF c.a <= 16 THEN OUTPUT_REG_1 ELSE OUTPUT_REG_2

Inside(t) == tpc[t] # "idle"

\* the register update and the first SetShieldMode of the call
ThreadEnter_NoSelect(t, c) ==
    /\ pc = "ready"
    /\ tpc[t] = "idle"
    /\ serialized => mutex = 0
    /\ mutex' = IF serialized THEN t ELSE mutex
    /\ tcall' = [tcall EXCEPT ![t] = c]
    /\ tpc' = [tpc EXCEPT ![t] = "selected"]
    /\ IF c.fn = "DigitalWrite" /\ c.a \in 1..8
       THEN /\ outputRegister1' = WriteBit(outputRegister1, 1, c.a - 1, c.b, {c.a - 1})
            /\ UNCHANGED outputRegister2
       ELSE IF c.fn = "DigitalWrite" /\ c.a \in 9..16
       THEN /\ outputRegister1' = WriteBit(outputRegister1, 0, c.a - 9, c.b, {c.a - 9})
            /\ UNCHANGED outputRegister2
       ELSE IF c.fn = "DigitalWrite"
       THEN /\ outputRegister2' = WriteBit(outputRegister2, 1, c.a - 17, c.b, {c.a - 17})
            /\ UNCHANGED outputRegister1
       ELSE UNCHANGED <<outputRegister1, outputRegister2>>
    /\ UNCHANGED <<pc, lines, internalRegister, verifier, call, ret, trace, calls,
                   rebootcount, rebooting, reboots, hw, board, switching, ccd, utilities,
                   serialized, tcount, exch>>

ThreadEnter(t, c) ==
    /\ pc = "ready"
    /\ tpc[t] = "idle"
    /\ serialized => mutex = 0
    /\ mutex' = IF serialized THEN t ELSE mutex
    /\ tcall' = [tcall EXCEPT ![t] = c]
    /\ tpc' = [tpc EXCEPT ![t] = "selected"]
    /\ IF c.fn = "DigitalWrite" /\ c.a \in 1..8
       THEN /\ outputRegister1' = WriteBit(outputRegister1, 1, c.a - 1, c.b, {c.a - 1})
            /\ UNCHANGED outputRegister2
       ELSE IF c.fn = "DigitalWrite" /\ c.a \in 9..16
       THEN /\ outputRegister1' = WriteBit(outputRegister1, 0, c.a - 9, c.b, {c.a - 9})
            /\ UNCHANGED outputRegister2
       ELSE IF c.fn = "DigitalWrite"
       THEN /\ outputRegister2' = WriteBit(outputRegister2, 1, c.a - 17, c.b, {c.a - 17})
            /\ UNCHANGED outputRegister1
       ELSE UNCHANGED <<outputRegister1, outputRegister2>>
    /\ lines' = SetShieldMode(lines, DedicatedMode(c))
    /\ UNCHANGED <<pc, internalRegister, verifier, call, ret, trace, calls,
                   rebootcount, rebooting, reboots, hw, board, switching, ccd, utilities,
                   serialized, tcount, exch>>

\* bcm2835_spi_writenb / bcm2835_spi_transfern: the board moves the bytes of
\* the register that the lines select at this moment
ThreadExchange(t) ==
    /\ pc = "ready"
    /\ tpc[t] = "selected"
    /\ \E lev \in gpio_lev(hw, lines) :
         exch' = [t |-> t, want |-> DedicatedMode(tcall[t]),
                  seen |-> GetShieldMode(lev)]
    /\ tpc' = [tpc EXCEPT ![t] = "exchanged"]
    /\ UNCHANGED <<pc, lines, regs, verifier, call, ret, trace, calls,
                   rebootcount, rebooting, reboots, hw, board, switching, ccd, utilities,
                   serialized, mutex, tcall, tcount>>

\* SetShieldMode(NONE) and the entry of VerifyAndFixShieldMode(NONE)
ThreadLeave(t) ==
    /\ pc = "ready"
    /\ tpc[t] = "exchanged"
    /\ lines' = SetShieldMode(lines, NONE)
    /\ tpc' = [tpc EXCEPT ![t] = "verify"]
    /\ tcount' = [tcount EXCEPT ![t] = 1]
    /\ UNCHANGED <<pc, regs, verifier, call, ret, trace, calls,
                   rebootcount, rebooting, reboots, hw, board, switching, ccd, utilities,
                   serialized, mutex, tcall, exch>>

\* one evaluation of the while condition of VerifyAndFixShieldMode(NONE) in
\* thread t; the function returns to the caller, who releases the mutex
ThreadVerify(t) ==
    /\ pc = "ready"
    /\ tpc[t] = "verify"
    /\ \E lev \in gpio_lev(hw, lines) :
         IF ModeReached(GetShieldMode(lev), NONE)
         THEN /\ tpc' = [tpc EXCEPT ![t] = "idle"]
              /\ mutex' = 0
              /\ UNCHANGED <<pc, tcount, rebootcount, rebooting, reboots>>
         ELSE IF SamplingExceeded(tcount[t])
         THEN /\ pc' = "exited"
              /\ IF RebootExceeded(rebootcount)
                 THEN /\ rebootcount' = 0
                      /\ UNCHANGED <<rebooting, reboots>>
                 ELSE /\ rebootcount' = rebootcount + 1
                      /\ rebooting' = TRUE
                      /\ reboots' = reboots + 1
              /\ UNCHANGED <<tpc, mutex, tcount>>
         ELSE /\ tcount' = [tcount EXCEPT ![t] = tcount[t] + 1]
              /\ UNCHANGED <<pc, tpc, mutex, rebootcount, rebooting, reboots>>
    /\ UNCHANGED <<lines, regs, verifier, call, ret, trace, calls, hw, board,
                   switching, ccd, utilities, serialized, tcall, exch>>

\* --------------------------------------------------- barcode monitor (ccd.c)
\* key_rep: the first character of each entry of the HID keyboard map
key_rep ==
    <<65, 66, 67, 68, 69, 70, 71, 72, 73, 74, 75, 76, 77, 78, 79, 80,
      81, 82, 83, 84, 85, 86, 87, 88, 89, 90, 49, 50, 51, 52, 53, 54,
      55, 56, 57, 48, 0, 0, 0, 0, 32, 45, 43, 91, 93, 124, 126, 58>>

\* a byte read beyond the end of key_rep
StrayBytes == {0, 65}

\* key_rep[ch - 4][0]
KeyChar(ch) ==
    IF ch - 4 \in 0..(Len(key_rep) - 1) THEN {key_rep[ch - 4 + 1]} ELSE StrayBytes

\* barcode_value[pos] = c.  An index outside the array does not touch
\* barcode_value: the byte lands in whatever the build placed beside it, here
\* either an object this model does not hold or the last byte of barcode_id.
StoreChar(value, id, pos, c) ==
    IF pos \in 0..(EMPLOYEE_ID_LENGTH - 1)
    THEN {[value |-> [value EXCEPT ![pos] = c], id |-> id]}
    ELSE {[value |-> value, id |-> id],
          [value |-> value, id |-> [id EXCEPT ![EMPLOYEE_ID_LENGTH - 1] = c]]}

\* strcpy(barcode_id, barcode_value): the characters up to and including the
\* first zero byte
strcpy(id, value) ==
    LET zeros == {i \in DOMAIN value : value[i] = 0}
        n == IF zeros = {} THEN EMPLOYEE_ID_LENGTH - 1
             ELSE CHOOSE i \in zeros : \A j \in zeros : i <= j
    IN  [i \in DOMAIN id |-> IF i <= n THEN value[i] ELSE id[i]]

\* translate(ch, pos): the outcomes as records of the statics it leaves and
\* the events it made
translate_NoLock(ch, pos) ==
    IF ch = 40
    THEN {[value |-> [w.value EXCEPT ![0] = 0],
           id |-> IF ccd_mode # CCD_NONE THEN strcpy(w.id, w.value) ELSE w.id,
           locker |-> IF ccd_mode = CCD_TEST THEN 0 ELSE ccd_locker,
           position |-> -1,
           ev |-> <<Ev("write", pos, <<0>>)>> \o
                  (IF ccd_mode # CCD_NONE
                   THEN <<Ev("id", 0, <<>>)>>
                        \o (IF ccd_mode = CCD_TEST
                            THEN <<Ev("unlock", 0, <<>>)>> ELSE <<>>)
                   ELSE <<>>) \o
                  <<Ev("reset", 0, <<>>)>>] :
             w \in StoreChar(barcode_value, barcode_id, pos, 0)}
    ELSE UNION {{[value |-> w.value, id |-> w.id, locker |-> ccd_locker,
                  position |-> pos,
                  ev |-> <<Ev("write", pos, <<c>>)>>] :
                   w \in StoreChar(barcode_value, barcode_id, pos, c)} :
                 c \in KeyChar(ch)}

translate(ch, pos) ==
    IF ch = 40
    THEN {[value |-> [w.value EXCEPT ![0] = 0],
           id |-> IF ccd_mode # CCD_NONE THEN strcpy(w.id, w.value) ELSE w.id,
           locker |-> IF ccd_mode # CCD_NONE /\ ccd_mode # CCD_TEST THEN 1
                      ELSE IF ccd_mode = CCD_TEST THEN 0 ELSE ccd_locker,
           position |-> -1,
           ev |-> <<Ev("write", pos, <<0>>)>> \o
                  (IF ccd_mode # CCD_NONE
                   THEN <<Ev("lock", 0, <<>>), Ev("id", 0, <<>>)>>
                        \o (IF ccd_mode = CCD_TEST
                            THEN <<Ev("unlock", 0, <<>>)>> ELSE <<>>)
                   ELSE <<>>) \o
                  <<Ev("reset", 0, <<>>)>>] :
             w \in StoreChar(barcode_value, barcode_id, pos, 0)}
    ELSE UNION {{[value |-> w.value, id |-> w.id, locker |-> ccd_locker,
                  position |-> pos,
                  ev |-> <<Ev("write", pos, <<c>>)>>] :
                   w \in StoreChar(barcode_value, barcode_id, pos, c)} :
                 c \in KeyChar(ch)}

\* one iteration of the while (1) of ccd_monitor in which the scanner's
\* descriptor is readable: read() returned bc_ret and buffer[2] is key
ccd_monitor(bc_ret, key) ==
    /\ reports < MaxReports
    /\ reports' = reports + 1
    /\ IF ccd_locker = 1
       THEN /\ position' = 0
            /\ ccd_ev' = <<Ev("report", key, <<bc_ret>>)>>
            /\ UNCHANGED <<barcode_value, barcode_id, ccd_locker>>
       ELSE IF bc_ret < 0 \/ key < 4
       THEN /\ ccd_ev' = <<Ev("report", key, <<bc_ret>>)>>
            /\ UNCHANGED <<barcode_value, barcode_id, ccd_locker, position>>
       ELSE \E t \in translate(key, position) :
              /\ barcode_value' = t.value
              /\ barcode_id' = t.id
              /\ ccd_locker' = t.locker
              /\ position' = IF t.position + 1 > BARCODE_LENGTH THEN 0
                             ELSE t.position + 1
              /\ ccd_ev' = <<Ev("report", key, <<bc_ret>>)>> \o t.ev
    /\ UNCHANGED <<pc, lines, regs, verifier, call, ret, trace, calls,
                   rebootcount, rebooting, reboots, hw, board, threads,
                   switching, utilities, ccd_mode>>

\* the public functions, called from other threads between two iterations
CcdReset ==
    /\ barcode_value' = [barcode_value EXCEPT ![0] = 0]
    /\ position' = -1
    /\ ccd_ev' = <<Ev("CcdReset", 0, <<>>)>>
    /\ UNCHANGED <<pc, lines, regs, verifier, call, ret, trace, calls,
                   rebootcount, rebooting, reboots, hw, board, threads,
                   switching, utilities, barcode_id, ccd_locker, ccd_mode, reports>>

SetCcdMode(set_mode) ==
    /\ ccd_mode' = set_mode
    /\ ccd_ev' = <<Ev("SetCcdMode", set_mode, <<>>)>>
    /\ UNCHANGED <<pc, lines, regs, verifier, call, ret, trace, calls,
                   rebootcount, rebooting, reboots, hw, board, threads,
                   switching, utilities, barcode_value, barcode_id, position, ccd_locker,
                   reports>>

CcdLock ==
    /\ ccd_locker' = 1
    /\ ccd_ev' = <<Ev("CcdLock", 0, <<>>)>>
    /\ UNCHANGED <<pc, lines, regs, verifier, call, ret, trace, calls,
                   rebootcount, rebooting, reboots, hw, board, threads,
                   switching, utilities, barcode_value, barcode_id, position, ccd_mode,
                   reports>>

CcdUnLock ==
    /\ ccd_locker' = 0
    /\ ccd_ev' = <<Ev("CcdUnLock", 0, <<>>)>>
    /\ UNCHANGED <<pc, lines, regs, verifier, call, ret, trace, calls,
                   rebootcount, rebooting, reboots, hw, board, threads,
                   switching, utilities, barcode_value, barcode_id, position, ccd_mode,
                   reports>>

\* ------------------------------------------------------------------ buffer.c
\* bytes malloc and realloc leave in the part of a block nobody wrote
Garbage == {0, 85}

\* the blocks malloc(n) can return
malloc(n) == [1..n -> Garbage]

\* the blocks realloc(block, n) can return for n above the block's size
realloc(block, n) ==
    {[i \in 1..n |-> IF i <= Len(block) THEN block[i] ELSE g[i]] :
       g \in [1..n -> Garbage]}

\* data[i] = c for a block of the heap.  An index outside the block leaves
\* the block as it is: the byte lands in the heap beside it.
StoreByte(block, i, c) ==
    IF i + 1 \in DOMAIN block THEN [block EXCEPT ![i + 1] = c] ELSE block

\* memmove(data + at, src, len)
memmove(block, at, src, len) ==
    [i \in DOMAIN block |->
       IF i - 1 \in at..(at + len - 1) THEN src[i - at] ELSE block[i]]

\* the shield, the threads and the monitor take no part in a Buffer call
BufferFrame ==
    UNCHANGED <<pc, lines, regs, verifier, call, ret, trace, calls,
                rebootcount, rebooting, reboots, hw, board, threads,
                switching, ccd, logger>>

BufferDataDestroy ==
    /\ buffer' = IF buffer.data # NULL
                 THEN [buf_len |-> 0, data_len |-> 0, data |-> NULL]
                 ELSE buffer
    /\ buf_ev' = [op |-> "BufferDataDestroy", len |-> 0, alloc |-> "none",
                  write |-> {}]
    /\ UNCHANGED buf_ret
    /\ BufferFrame

BufferInit ==
    /\ buffer' = [buf_len |-> 0, data_len |-> 0, data |-> NULL]
    /\ buf_ev' = [op |-> "BufferInit", len |-> 0, alloc |-> "none", write |-> {}]
    /\ UNCHANGED buf_ret
    /\ BufferFrame

BufferTrim(len) ==
    /\ buffer.data_len - len <= MaxData
    /\ IF buffer.data # NULL /\ buffer.buf_len >= len /\ buffer.data_len >= len
       THEN /\ buffer' = [buffer EXCEPT
                            !.data_len = buffer.data_len - len,
                            !.data = StoreByte(buffer.data,
                                               buffer.data_len - len, 0)]
            /\ buf_ev' = [op |-> "BufferTrim", len |-> len, alloc |-> "none",
                          write |-> {buffer.data_len - len}]
       ELSE /\ buffer' = buffer
            /\ buf_ev' = [op |-> "BufferTrim", len |-> len, alloc |-> "none",
                          write |-> {}]
    /\ UNCHANGED buf_ret
    /\ BufferFrame

BufferReset ==
    /\ buffer' = [buffer EXCEPT
                    !.data_len = 0,
                    !.data = IF buffer.data # NULL
                             THEN StoreByte(buffer.data, 0, 0) ELSE NULL]
    /\ buf_ev' = [op |-> "BufferReset", len |-> 0, alloc |-> "none",
                  write |-> IF buffer.data # NULL THEN {0} ELSE {}]
    /\ UNCHANGED buf_ret
    /\ BufferFrame

\* the tail of BufferBinPush: memmove, data_len += len, the terminator
PushInto(b, src, len) ==
    [buf_len |-> b.buf_len,
     data_len |-> b.data_len + len,
     data |-> StoreByte(memmove(b.data, b.data_len, src, len),
                        b.data_len + len, 0)]

\* BufferBinPush(b, src, len); ok tells whether malloc or realloc, when
\* called, returns a block
BufferBinPush(src, len, ok) ==
    /\ buffer.data_len + len <= MaxData
    /\ IF len <= 0
       THEN /\ buf_ret' = 0
            /\ buffer' = buffer
            /\ buf_ev' = [op |-> "BufferBinPush", len |-> len,
                          alloc |-> "none", write |-> {}]
       ELSE IF buffer.data = NULL
       THEN IF ~ok
            THEN /\ buf_ret' = -1
                 /\ buffer' = buffer
                 /\ buf_ev' = [op |-> "BufferBinPush", len |-> len,
                               alloc |-> "failed", write |-> {}]
            ELSE \E block \in malloc(len + 1) :
                   /\ buf_ret' = 0
                   /\ buffer' = PushInto([buf_len |-> len + 1, data_len |-> 0,
                                          data |-> StoreByte(block, 0, 0)],
                                         src, len)
                   /\ buf_ev' = [op |-> "BufferBinPush", len |-> len,
                                 alloc |-> "done", write |-> {0, len}]
       ELSE IF buffer.buf_len < buffer.data_len + len + 1
       THEN IF ~ok
            THEN /\ buf_ret' = -1
                 /\ buffer' = buffer
                 /\ buf_ev' = [op |-> "BufferBinPush", len |-> len,
                               alloc |-> "failed", write |-> {}]
            ELSE \E tmp \in realloc(buffer.data, buffer.data_len + len + 1) :
                   /\ buf_ret' = 0
                   /\ buffer' = PushInto([buf_len |-> buffer.data_len + len + 1,
                                          data_len |-> buffer.data_len,
                                          data |-> tmp], src, len)
                   /\ buf_ev' = [op |-> "BufferBinPush", len |-> len,
                                 alloc |-> "done",
                                 write |-> {buffer.data_len + len}]
       ELSE /\ buf_ret' = 0
            /\ buffer' = PushInto(buffer, src, len)
            /\ buf_ev' = [op |-> "BufferBinPush", len |-> len,
                          alloc |-> "none", write |-> {buffer.data_len + len}]
    /\ BufferFrame

\* ---------------------------------------------------------------- log.c
UpperCase == <<"A", "B", "C", "D", "E", "F", "G", "H", "I", "J", "K", "L", "M",
               "N", "O", "P", "Q", "R", "S", "T", "U", "V", "W", "X", "Y", "Z">>
LowerCase == <<"a", "b", "c", "d", "e", "f", "g", "h", "i", "j", "k", "l", "m",
               "n", "o", "p", "q", "r", "s", "t", "u", "v", "w", "x", "y", "z">>

tolower(c) ==
    IF \E i \in 1..26 : UpperCase[i] = c
    THEN LowerCase[CHOOSE i \in 1..26 : UpperCase[i] = c]
    ELSE c

\* strcasecmp(s, t) == 0
strcasecmp(s, t) ==
    /\ Len(s) = Len(t)
    /\ \A i \in 1..Len(s) : tolower(s[i]) = tolower(t[i])

\* the loop of SetLogConfig that steps over digits and characters below 33
RECURSIVE SkipNumber(_)
SkipNumber(s) ==
    IF s # <<>> /\ (IsDigit(Head(s)) \/ Head(s) = " ")
    THEN SkipNumber(Tail(s))
    ELSE s

LogEv(op, v) == [op |-> op, v |-> v]

\* what StartLogger does to a configuration: opened tells whether fopen
\* succeeds and size is the result of ftell.  The LOG of the failure runs
\* with fp == NULL and the mode not yet changed, so it reaches the screen only.
StartLoggerOn(cfg, opened, size) ==
    IF cfg.mode = TO_FILE \/ cfg.mode = TO_BOTH
    THEN IF ~opened
         THEN [cfg |-> [cfg EXCEPT !.fp = FALSE, !.mode = TO_SCREEN],
               ev |-> <<LogEv("fopen", -1)>> \o
                      (IF __LOG_WARNING >= cfg.level /\ cfg.mode # TO_FILE
                       THEN <<LogEv("stderr", __LOG_WARNING)>>
                       ELSE <<>>)]
         ELSE [cfg |-> [cfg EXCEPT !.fp = TRUE, !.cur = size],
               ev |-> <<LogEv("fopen", size)>>]
    ELSE [cfg |-> cfg, ev |-> <<>>]

\* what LOG does to a configuration.  io.rc is the result of fprintf to the
\* file, io.opened the success of the fopen of a restart, io.scan the outcome
\* of the FileOpen calls that look for the backup files; the file reopened
\* after the rename or the remove is new, and ftell gives 0.  The fclose
\* event carries the size of the file that is closed.
LOGOn(cfg, level, io) ==
    IF level >= cfg.level /\ cfg.mode # TO_NONE
    THEN LET screen == IF cfg.mode # TO_FILE
                       THEN <<LogEv("stderr", level)>>
                       ELSE <<>>
         IN  IF cfg.fp /\ io.rc > 0
             THEN LET grown == [cfg EXCEPT !.cur = @ + io.rc]
                      wrote == screen \o <<LogEv("fprintf", io.rc)>>
                  IN  IF grown.cur >= grown.limit
                      THEN LET closed == [grown EXCEPT !.fp = FALSE]
                               shut == wrote \o <<LogEv("fclose", grown.cur)>>
                               again == StartLoggerOn(closed, io.opened, 0)
                           IN  IF closed.rotate = 1
                               THEN IF closed.backup > 1 /\ io.scan = "error"
                                    THEN [cfg |-> [closed EXCEPT
                                                     !.mode = TO_SCREEN],
                                          ev |-> shut]
                                    ELSE [cfg |-> again.cfg,
                                          ev |-> shut \o
                                                 <<LogEv("rename", 1)>> \o
                                                 again.ev]
                               ELSE [cfg |-> again.cfg,
                                     ev |-> shut \o <<LogEv("remove", 0)>> \o
                                            again.ev]
                      ELSE [cfg |-> grown, ev |-> wrote]
             ELSE [cfg |-> cfg, ev |-> screen]
    ELSE [cfg |-> cfg, ev |-> <<>>]

\* the LogMode branch of SetLogConfig
LogModeOf(value) ==
    IF strcasecmp(value, <<"S", "C", "R", "E", "E", "N">>) THEN TO_SCREEN
    ELSE IF strcasecmp(value, <<"F", "I", "L", "E">>) THEN TO_FILE
    ELSE IF strcasecmp(value, <<"N", "O", "N", "E">>) THEN TO_NONE
    ELSE TO_BOTH

\* the LogLevel branch of SetLogConfig
LogLevelOf(value) ==
    IF strcasecmp(value, <<"N", "O", "T", "I", "C", "E">>) THEN __LOG_NOTICE
    ELSE IF strcasecmp(value, <<"W", "A", "R", "N", "I", "N", "G">>)
         THEN __LOG_WARNING
    ELSE IF strcasecmp(value, <<"E", "R", "R", "O", "R">>) THEN __LOG_ERROR
    ELSE __LOG_DEBUG

\* the LogLimit branch of SetLogConfig on a configuration
LogLimitOn(cfg, value, io) ==
    LET res == atoi(value)
        unit == SkipNumber(value)
        scaled ==
            IF unit = <<>> THEN res
            ELSE IF strcasecmp(unit, <<"k", "b">>) \/ strcasecmp(unit, <<"k">>)
                 THEN res * 1024
            ELSE IF strcasecmp(unit, <<"m", "b">>) \/ strcasecmp(unit, <<"m">>)
                 THEN res * 1024 * 1024
            ELSE IF strcasecmp(unit, <<"g", "b">>) \/ strcasecmp(unit, <<"g">>)
                 THEN res * 1024 * 1024 * 1024
            ELSE res
        known ==
            \/ unit = <<>>
            \/ \E u \in {<<"k", "b">>, <<"k">>, <<"m", "b">>, <<"m">>,
                         <<"g", "b">>, <<"g">>} : strcasecmp(unit, u)
        limited == [cfg EXCEPT !.limit = scaled]
        warned == IF known
                  THEN [cfg |-> limited, ev |-> <<>>]
                  ELSE LOGOn(limited, __LOG_WARNING, io)
        noticed == LOGOn(warned.cfg, __LOG_NOTICE, io)
    IN  IF res <= 0
        THEN LOGOn(cfg, __LOG_WARNING, io)
        ELSE IF warned.cfg.limit < DEFAULT_LOG_LIMIT
             THEN [cfg |-> [noticed.cfg EXCEPT !.limit = DEFAULT_LOG_LIMIT],
                   ev |-> warned.ev \o noticed.ev]
             ELSE warned

\* the LogBackup branch of SetLogConfig; backup is an unsigned char
LogBackupOn(cfg, value, io) ==
    LET backup == atoi(value) % 256
        warned == LOGOn([cfg EXCEPT !.backup = backup], __LOG_WARNING, io)
    IN  IF backup < 1
        THEN [cfg |-> [warned.cfg EXCEPT !.backup = 1], ev |-> warned.ev]
        ELSE [cfg |-> [cfg EXCEPT !.backup = backup], ev |-> <<>>]

\* the shield, the threads, the monitor and the Buffer take no part in a
\* call into log.c
LogFrame ==
    UNCHANGED <<pc, lines, regs, verifier, call, ret, trace, calls,
                rebootcount, rebooting, reboots, hw, board, threads,
                switching, ccd, buf>>

\* SetLogConfig(name, value).  io.flag is the result of StringToBoolean,
\* which act_string.h declares.  LogFileName changes fn alone.
SetLogConfig(name, value, io) ==
    /\ log_calls < MaxLogCalls
    /\ LET done ==
             IF strcasecmp(name, <<"L", "o", "g", "M", "o", "d", "e">>)
             THEN [cfg |-> [LogConfig EXCEPT !.mode = LogModeOf(value)],
                   ev |-> <<>>]
             ELSE IF strcasecmp(name,
                                <<"L", "o", "g", "L", "i", "m", "i", "t">>)
             THEN LogLimitOn(LogConfig, value, io)
             ELSE IF strcasecmp(name,
                                <<"L", "o", "g", "B", "a", "c", "k", "u", "p">>)
             THEN LogBackupOn(LogConfig, value, io)
             ELSE IF strcasecmp(name,
                                <<"L", "o", "g", "L", "e", "v", "e", "l">>)
             THEN [cfg |-> [LogConfig EXCEPT !.level = LogLevelOf(value)],
                   ev |-> <<>>]
             ELSE IF strcasecmp(name, <<"L", "o", "g", "A", "u", "t", "o",
                                        "R", "o", "t", "a", "t", "e">>)
             THEN [cfg |-> [LogConfig EXCEPT !.rotate = io.flag], ev |-> <<>>]
             ELSE [cfg |-> LogConfig, ev |-> <<>>]
       IN  /\ LogConfig' = done.cfg
           /\ log_ev' = <<LogEv("SetLogConfig", 0)>> \o done.ev
    /\ log_calls' = log_calls + 1
    /\ LogFrame

\* StartLogger()
StartLogger(opened, size) ==
    /\ log_calls < MaxLogCalls
    /\ LET done == StartLoggerOn(LogConfig, opened, size)
       IN  /\ LogConfig' = done.cfg
           /\ log_ev' = <<LogEv("StartLogger", 0)>> \o done.ev
    /\ log_calls' = log_calls + 1
    /\ LogFrame

\* LOG(level, ...)
LOG(level, io) ==
    /\ log_calls < MaxLogCalls
    /\ LET done == LOGOn(LogConfig, level, io)
       IN  /\ LogConfig' = done.cfg
           /\ log_ev' = <<LogEv("LOG", level)>> \o done.ev
    /\ log_calls' = log_calls + 1
    /\ LogFrame

\* ------------------------------------------------------------- call inputs
SegmentArgs == {0, 1, 8, 9, 10, 11}
ModeArgs == {DIO, SPI, SIO}
OutputPinArgs == {0, 1, 8, 9, 16, 17, 20, 21}
InputPinArgs == {0, 1, 8, 9, 10, 11}
ChannelArgs == {0, 7, 8}
DacBankArgs == {0, 1, 2}
MillivoltArgs == {0, 9, 2230, 2500}
ReadArgs == {[i \in 0..1 |-> 0], [i \in 0..1 |-> IF i = 0 THEN 31 ELSE 255],
             [i \in 0..1 |-> IF i = 0 THEN 15 ELSE 254],
             [i \in 0..1 |-> IF i = 0 THEN 2 ELSE 129]}

Next ==
    \/ ShieldLibInit
    \/ VerifyAndFixShieldMode
    \/ Boot
    \/ \E pin_number \in SegmentArgs, mode \in ModeArgs : PinMode(pin_number, mode)
    \/ \E pin_number \in OutputPinArgs, value \in {0, 1} :
         DigitalWrite(pin_number, value)
    \/ \E pin_number \in InputPinArgs, rd \in ReadArgs : DigitalRead(pin_number, rd)
    \/ \E port_num \in ChannelArgs, rd \in ReadArgs : AnalogRead(port_num, rd)
    \/ \E adc_addr \in DacBankArgs, mv_value \in MillivoltArgs :
         AnalogWrite(adc_addr, mv_value)
    \/ ShieldLibClose

Spec == Init /\ [][Next]_vars

\* the register codec on a faithful board, over every segment and output pin
InitCodec == Init /\ hw = "faithful"

NextCodec ==
    \/ ShieldLibInit
    \/ VerifyAndFixShieldMode
    \/ \E pin_number \in 0..11, mode \in ModeArgs : PinMode(pin_number, mode)
    \/ \E pin_number \in 0..21, value \in {0, 1} : DigitalWrite(pin_number, value)

SpecCodec == InitCodec /\ [][NextCodec]_vars

\* output register contents DigitalWrite calls lead to: the initial registers,
\* every pin HIGH, and a mixed pattern
OutputSamples ==
    {[r1 |-> [i \in 0..1 |-> 0], r2 |-> [i \in 0..1 |-> 0]],
     [r1 |-> [i \in 0..1 |-> 255], r2 |-> [i \in 0..1 |-> IF i = 1 THEN 15 ELSE 0]],
     [r1 |-> [i \in 0..1 |-> IF i = 0 THEN 165 ELSE 90],
      r2 |-> [i \in 0..1 |-> IF i = 1 THEN 5 ELSE 0]]}

\* the bit of the output registers that DigitalWrite(p, _) owns, as the
\* branches of DigitalWrite select it
PinBit(r1, r2, p) ==
    IF p <= 8 THEN (r1[1] \div (2 ^ (p - 1))) % 2
    ELSE IF p <= 16 THEN (r1[0] \div (2 ^ (p - 9))) % 2
    ELSE (r2[1] \div (2 ^ (p - 17))) % 2

\* an initialised process on a faithful board after a run of DigitalWrite
\* calls that wrote every pin and left the registers at one of OutputSamples
InitWrites ==
    /\ pc = "ready"
    /\ hw = "faithful"
    /\ lines = SetShieldMode(AllLow, NONE)
    /\ internalRegister = [i \in 0..1 |-> 255]
    /\ \E o \in OutputSamples :
         /\ outputRegister1 = o.r1
         /\ outputRegister2 = o.r2
         /\ latched = [m \in {OUTPUT_REG_1, OUTPUT_REG_2} |->
                         IF m = OUTPUT_REG_1 THEN <<o.r1[0], o.r1[1]>>
                         ELSE <<o.r2[0], o.r2[1]>>]
         /\ written = [p \in 1..20 |-> PinBit(o.r1, o.r2, p)]
         /\ entry = o
    /\ rebootcount = 0
    /\ sampling_count = 1
    /\ vmode = NONE
    /\ call = Call("none", 0, 0)
    /\ ret = 0
    /\ trace = <<>>
    /\ calls = 0
    /\ rebooting = FALSE
    /\ reboots = 0
    /\ Elsewhere0

NextWrites ==
    \/ VerifyAndFixShieldMode
    \/ \E pin_number \in 0..21, value \in {0, 1} : DigitalWrite(pin_number, value)

SpecWrites == InitWrites /\ [][NextWrites]_vars

\* bytes the transport returns to the read paths
ReadBytes ==
    {[i \in 0..1 |-> IF i = 0 THEN b0 ELSE b1] :
       b0 \in {0, 1, 15, 16, 31, 127, 128, 255}, b1 \in {0, 1, 2, 128, 255}}

\* the read paths on a faithful board, over every input pin and channel
NextReads ==
    \/ ShieldLibInit
    \/ VerifyAndFixShieldMode
    \/ \E pin_number \in 0..11, rd \in ReadBytes : DigitalRead(pin_number, rd)
    \/ \E port_num \in 0..8, rd \in ReadBytes : AnalogRead(port_num, rd)

SpecReads == InitCodec /\ [][NextReads]_vars

\* arguments of AnalogWrite: every millivolt value up to the ceiling, the
\* first value above it and a far one; the two banks and two values above
DacMillivolts == 0..2231 \cup {2500}
DacBanks == 0..3

\* an initialised process on a faithful board about to call AnalogWrite with
\* the arguments held in call
InitDac ==
    /\ pc = "ready"
    /\ hw = "faithful"
    /\ lines = SetShieldMode(AllLow, NONE)
    /\ Registers0
    /\ rebootcount = 0
    /\ sampling_count = 1
    /\ vmode = ADC
    /\ \E adc_addr \in DacBanks, mv_value \in DacMillivolts :
         call = Call("main", adc_addr, mv_value)
    /\ ret = 0
    /\ trace = <<>>
    /\ calls = 0
    /\ rebooting = FALSE
    /\ reboots = 0
    /\ latched = [m \in {OUTPUT_REG_1, OUTPUT_REG_2} |-> <<>>]
    /\ written = [p \in 1..20 |-> -1]
    /\ entry = [r1 |-> outputRegister1, r2 |-> outputRegister2]
    /\ Elsewhere0

NextDac ==
    \/ VerifyAndFixShieldMode
    \/ AnalogWrite(call.a, call.b)

SpecDac == InitDac /\ [][NextDac]_vars

\* the enumerators of ShieldMode
ShieldModes ==
    {INIT_ALL_LOW, NONE, INTERNAL_REG, OUTPUT_REG_1, OUTPUT_REG_2, INPUT_REG,
     DAC, RTC, ADC}

\* int arguments of SetShieldMode: the nine codes and integers that are none
ModeInputs == ShieldModes \cup {-1, 1, 113, 124, 128}

\* a caller runs SetShieldMode(mode) and then reads the lines back
SetThenGetShieldMode(mode) ==
    /\ pc = "ready"
    /\ calls < MaxCalls
    /\ calls' = calls + 1
    /\ call' = Call("SetShieldMode", mode, 0)
    /\ lines' = SetShieldMode(lines, mode)
    /\ \E lev \in gpio_lev(hw, lines') :
         /\ ret' = GetShieldMode(lev)
         /\ trace' = <<Ev("set", mode, <<>>), Ev("sample", GetShieldMode(lev), <<>>)>>
    /\ UNCHANGED <<pc, regs, verifier, host>>

\* the mode selector alone, started from every state of the seven lines
InitModes ==
    /\ pc = "ready"
    /\ hw = "faithful"
    /\ lines \in [GEN -> {0, 1}]
    /\ Registers0
    /\ rebootcount = 0
    /\ sampling_count = 1
    /\ vmode = NONE
    /\ call = Call("none", 0, 0)
    /\ ret = 0
    /\ trace = <<>>
    /\ calls = 0
    /\ rebooting = FALSE
    /\ reboots = 0
    /\ latched = [m \in {OUTPUT_REG_1, OUTPUT_REG_2} |-> <<>>]
    /\ written = [p \in 1..20 |-> -1]
    /\ entry = [r1 |-> outputRegister1, r2 |-> outputRegister2]
    /\ Elsewhere0

NextModes == \E mode \in ModeInputs : SetThenGetShieldMode(mode)

SpecModes == InitModes /\ [][NextModes]_vars

\* parameter names of the RPC wrappers
ShieldCn == <<"s", "h", "i", "e", "l", "d", ".", "c", "n">>
PortName(nn) == ShieldCn \o <<Digits[(nn \div 10) + 1], Digits[(nn % 10) + 1]>>
PinName(nn, p) == PortName(nn) \o <<".", Digits[p + 1]>>

\* shield.cnNN.P for every port and both pins
PinNames == {PinName(nn, p) : nn \in 11..20, p \in {2, 4}}

\* names RpcPinWrite is not meant for: a pin 3, no pin field, no port field,
\* a gpio name, the empty name, a lone ".", another prefix, a port "xx"
BadPinNames ==
    {PinName(11, 3),
     PortName(11),
     <<"s", "h", "i", "e", "l", "d">>,
     <<"g", "p", "i", "o", ".", "1", "1">>,
     <<>>,
     <<".">>,
     <<"b", "o", "a", "r", "d", "s", ".", "c", "n", "1", "1", ".", "2">>,
     <<"s", "h", "i", "e", "l", "d", ".", "c", "n", "x", "x", ".", "2">>}

\* shield.cnNN for the first port, the last SPI port and the two last ports
PortNames == {PortName(nn) : nn \in {11, 18, 19, 20}}

\* names the port wrappers are not meant for: another prefix, no port field,
\* a port "xx", a port outside 11..20
BadPortNames ==
    {<<"b", "o", "a", "r", "d", "s", ".", "c", "n", "1", "2">>,
     <<"s", "h", "i", "e", "l", "d">>,
     <<"s", "h", "i", "e", "l", "d", ".", "c", "n", "x", "x">>,
     PortName(21)}

ValueArgs == {<<"0">>, <<"1">>, <<"2">>}
ModeNameArgs == {<<"d", "i", "o">>, <<"s", "p", "i">>, <<"s", "i", "o">>, <<"x">>}
RpcReadArgs == {[i \in 0..1 |-> 0], [i \in 0..1 |-> 255]}

\* the name-based wrappers on a faithful board
NextRpc ==
    \/ ShieldLibInit
    \/ VerifyAndFixShieldMode
    \/ \E param \in PinNames \cup BadPinNames, value \in ValueArgs :
         RpcPinWrite(param, value)
    \/ \E param \in PortNames \cup BadPortNames, value \in ModeNameArgs :
         RpcChangeMode(param, value)
    \/ \E param \in PortNames \cup BadPortNames, rd \in RpcReadArgs :
         RpcDigitalRead(param, rd)

SpecRpc == InitCodec /\ [][NextRpc]_vars

\* pin-level calls the two threads make: both output registers and the
\* input register
ThreadCalls ==
    {Call("DigitalWrite", 1, 1), Call("DigitalWrite", 9, 0),
     Call("DigitalWrite", 17, 1), Call("DigitalRead", 1, 0)}

\* an initialised process on a faithful board whose two threads make
\* pin-level calls, under the application's mutex or without it
InitThreads ==
    /\ pc = "ready"
    /\ hw = "faithful"
    /\ lines = SetShieldMode(AllLow, NONE)
    /\ Registers0
    /\ rebootcount = 0
    /\ sampling_count = 1
    /\ vmode = NONE
    /\ call = Call("none", 0, 0)
    /\ ret = 0
    /\ trace = <<>>
    /\ calls = 0
    /\ rebooting = FALSE
    /\ reboots = 0
    /\ latched = [m \in {OUTPUT_REG_1, OUTPUT_REG_2} |-> <<>>]
    /\ written = [p \in 1..20 |-> -1]
    /\ entry = [r1 |-> outputRegister1, r2 |-> outputRegister2]
    /\ serialized \in BOOLEAN
    /\ mutex = 0
    /\ tpc = [t \in Threads |-> "idle"]
    /\ tcall = [t \in Threads |-> Call("none", 0, 0)]
    /\ tcount = [t \in Threads |-> 1]
    /\ exch = [t |-> 0, want |-> NONE, seen |-> NONE]
    /\ SwitchingIdle
    /\ CcdStatics
    /\ BufferEmpty
    /\ LogStatics

NextThreads ==
    \E t \in Threads :
       \/ \E c \in ThreadCalls : ThreadEnter(t, c)
       \/ ThreadExchange(t)
       \/ ThreadLeave(t)
       \/ ThreadVerify(t)

SpecThreads == InitThreads /\ [][NextThreads]_vars

\* the lines rest in NONE; a caller switches to a mode, or from a mode back
\* to NONE, and the lines are observed after each write
InitSwitch ==
    /\ pc = "ready"
    /\ hw = "faithful"
    /\ lines = SetShieldMode(AllLow, NONE)
    /\ Registers0
    /\ rebootcount = 0
    /\ sampling_count = 1
    /\ vmode = NONE
    /\ call = Call("none", 0, 0)
    /\ ret = 0
    /\ trace = <<>>
    /\ calls = 0
    /\ rebooting = FALSE
    /\ reboots = 0
    /\ latched = [m \in {OUTPUT_REG_1, OUTPUT_REG_2} |-> <<>>]
    /\ written = [p \in 1..20 |-> -1]
    /\ entry = [r1 |-> outputRegister1, r2 |-> outputRegister2]
    /\ Elsewhere0

NextSwitch ==
    \/ \E mode \in ShieldModes :
         /\ GetShieldMode(lines) = NONE \/ mode = NONE
         /\ SwitchBegin(mode)
    \/ LineWrite

SpecSwitch == InitSwitch /\ [][NextSwitch]_vars

\* the persisted counter as an earlier run of the program can have left it
CountersLeft == 0..(MAX_REBOOT_RETRY_TIME + 1)

\* a process started with any counter value an earlier run left, on any board
InitCounter ==
    /\ pc = "off"
    /\ hw \in Boards
    /\ lines = AllLow
    /\ Registers0
    /\ rebootcount \in CountersLeft
    /\ sampling_count = 1
    /\ vmode = NONE
    /\ call = Call("none", 0, 0)
    /\ ret = 0
    /\ trace = <<>>
    /\ calls = 0
    /\ rebooting = FALSE
    /\ reboots = 0
    /\ latched = [m \in {OUTPUT_REG_1, OUTPUT_REG_2} |-> <<>>]
    /\ written = [p \in 1..20 |-> -1]
    /\ entry = [r1 |-> outputRegister1, r2 |-> outputRegister2]
    /\ Elsewhere0

\* boot cycles and one call of each public function
NextCounter ==
    \/ ShieldLibInit
    \/ VerifyAndFixShieldMode
    \/ Boot
    \/ \E mode \in {DIO, SPI} : PinMode(9, mode)
    \/ DigitalWrite(1, 1)
    \/ DigitalRead(1, [i \in 0..1 |-> 255])
    \/ AnalogRead(0, [i \in 0..1 |-> IF i = 0 THEN 15 ELSE 254])
    \/ AnalogWrite(0, 9)
    \/ ShieldLibClose

SpecCounter == InitCounter /\ [][NextCounter]_vars

\* HID codes received: one below 0x04, the letter A, Enter, and the first
\* code beyond the keyboard map
KeyArgs == {2, 4, 40, 52}
ReadResults == {-1, 4}
CcdModeArgs == {CCD_NONE, CCD_CHECK_IN, CCD_TEST}

\* positions the monitor has reached after that many reports of the letter A
TypedArgs == {0, 1, BARCODE_LENGTH - 1, BARCODE_LENGTH}

\* the monitor thread after an unlocked scanner sent the letter A typed times
InitCcd ==
    /\ pc = "off"
    /\ hw = "faithful"
    /\ lines = AllLow
    /\ Registers0
    /\ rebootcount = 0
    /\ sampling_count = 1
    /\ vmode = NONE
    /\ call = Call("none", 0, 0)
    /\ ret = 0
    /\ trace = <<>>
    /\ calls = 0
    /\ rebooting = FALSE
    /\ reboots = 0
    /\ latched = [m \in {OUTPUT_REG_1, OUTPUT_REG_2} |-> <<>>]
    /\ written = [p \in 1..20 |-> -1]
    /\ entry = [r1 |-> outputRegister1, r2 |-> outputRegister2]
    /\ ThreadsIdle
    /\ SwitchingIdle
    /\ BufferEmpty
    /\ LogStatics
    /\ \E typed \in TypedArgs :
         /\ barcode_value = [i \in 0..(EMPLOYEE_ID_LENGTH - 1) |->
                               IF i < typed THEN key_rep[1] ELSE 0]
         /\ position = typed
    /\ barcode_id = [i \in 0..(EMPLOYEE_ID_LENGTH - 1) |-> 0]
    /\ ccd_locker = 0
    /\ ccd_mode = CCD_NONE
    /\ reports = 0
    /\ ccd_ev = <<>>

NextCcd ==
    \/ \E bc_ret \in ReadResults, key \in KeyArgs : ccd_monitor(bc_ret, key)
    \/ CcdReset
    \/ \E set_mode \in CcdModeArgs : SetCcdMode(set_mode)
    \/ CcdLock
    \/ CcdUnLock

SpecCcd == InitCcd /\ [][NextCcd]_vars

\* the monitor with the calls that lock, unlock and set the mode; CcdReset is
\* called by translate only
NextCcdMonitor ==
    \/ \E bc_ret \in ReadResults, key \in KeyArgs : ccd_monitor(bc_ret, key)
    \/ \E set_mode \in CcdModeArgs : SetCcdMode(set_mode)
    \/ CcdLock
    \/ CcdUnLock

SpecCcdMonitor == InitCcd /\ [][NextCcdMonitor]_vars

\* arguments of BufferBinPush: lengths not above 0 and one or two bytes
PushLens == {-1, 0, 1, 2}
PushBytes == <<65, 66>>
\* arguments of BufferTrim on both sides of 0 and above any data_len
TrimLens == {-2, -1, 0, 1, 2, MaxData + 2}

\* one Buffer, initialised by BufferInit
InitBuffer ==
    /\ pc = "off"
    /\ hw = "faithful"
    /\ lines = AllLow
    /\ Registers0
    /\ rebootcount = 0
    /\ sampling_count = 1
    /\ vmode = NONE
    /\ call = Call("none", 0, 0)
    /\ ret = 0
    /\ trace = <<>>
    /\ calls = 0
    /\ rebooting = FALSE
    /\ reboots = 0
    /\ latched = [m \in {OUTPUT_REG_1, OUTPUT_REG_2} |-> <<>>]
    /\ written = [p \in 1..20 |-> -1]
    /\ entry = [r1 |-> outputRegister1, r2 |-> outputRegister2]
    /\ Elsewhere0

NextBuffer ==
    \/ BufferInit
    \/ \E len \in PushLens, ok \in BOOLEAN :
         BufferBinPush(SubSeq(PushBytes, 1, len), len, ok)
    \/ \E len \in TrimLens : BufferTrim(len)
    \/ BufferReset
    \/ BufferDataDestroy

SpecBuffer == InitBuffer /\ [][NextBuffer]_vars

\* results of fprintf to the file: a failure and a message of 4096 bytes
FprintfResults == {-1, 4096}
\* results of ftell after fopen(fn, "a"): the start of the file, and the end
\* of a file that one more message takes past 1 MiB
FtellResults == {0, DEFAULT_LOG_LIMIT - 1024}
LogIo ==
    [rc : FprintfResults, opened : BOOLEAN, scan : {"ok", "error"},
     flag : {0, 1}]
\* configuration items: each name of SetLogConfig with values of each branch
LogItems ==
    {<<<<"L", "o", "g", "M", "o", "d", "e">>, <<"s", "c", "r", "e", "e", "n">>>>,
     <<<<"L", "o", "g", "M", "o", "d", "e">>, <<"F", "I", "L", "E">>>>,
     <<<<"L", "o", "g", "M", "o", "d", "e">>, <<"N", "O", "N", "E">>>>,
     <<<<"l", "o", "g", "m", "o", "d", "e">>, <<"B", "O", "T", "H">>>>,
     <<<<"L", "o", "g", "L", "i", "m", "i", "t">>, <<"0">>>>,
     <<<<"L", "o", "g", "L", "i", "m", "i", "t">>, <<"5", "1", "2">>>>,
     <<<<"L", "o", "g", "L", "i", "m", "i", "t">>, <<"2", "M", "B">>>>,
     <<<<"L", "o", "g", "L", "i", "m", "i", "t">>, <<"1", "5", "0", "0", "k">>>>,
     <<<<"L", "o", "g", "L", "i", "m", "i", "t">>, <<"5", "x">>>>,
     <<<<"L", "o", "g", "L", "i", "m", "i", "t">>, <<"1", "g">>>>,
     <<<<"L", "o", "g", "B", "a", "c", "k", "u", "p">>, <<"0">>>>,
     <<<<"L", "o", "g", "B", "a", "c", "k", "u", "p">>, <<"3">>>>,
     <<<<"L", "o", "g", "L", "e", "v", "e", "l">>,
       <<"W", "A", "R", "N", "I", "N", "G">>>>,
     <<<<"L", "o", "g", "L", "e", "v", "e", "l">>, <<"D", "E", "B", "U", "G">>>>,
     <<<<"L", "o", "g", "A", "u", "t", "o", "R", "o", "t", "a", "t", "e">>,
       <<"o", "n">>>>,
     <<<<"L", "o", "g", "F", "i", "l", "e", "N", "a", "m", "e">>,
       <<"/", "l">>>>}

\* the logger from its static configuration
InitLogger ==
    /\ pc = "off"
    /\ hw = "faithful"
    /\ lines = AllLow
    /\ Registers0
    /\ rebootcount = 0
    /\ sampling_count = 1
    /\ vmode = NONE
    /\ call = Call("none", 0, 0)
    /\ ret = 0
    /\ trace = <<>>
    /\ calls = 0
    /\ rebooting = FALSE
    /\ reboots = 0
    /\ latched = [m \in {OUTPUT_REG_1, OUTPUT_REG_2} |-> <<>>]
    /\ written = [p \in 1..20 |-> -1]
    /\ entry = [r1 |-> outputRegister1, r2 |-> outputRegister2]
    /\ Elsewhere0

NextLogger ==
    \/ \E item \in LogItems, io \in LogIo : SetLogConfig(item[1], item[2], io)
    \/ \E opened \in BOOLEAN, size \in FtellResults : StartLogger(opened, size)
    \/ \E level \in {__LOG_DEBUG, __LOG_ERROR}, io \in LogIo : LOG(level, io)

SpecLogger == InitLogger /\ [][NextLogger]_vars

\* ------------------------------------------------------------------ claims
Returned(fn) == pc = "ready" /\ call.fn = fn
Ops(op) == {i \in DOMAIN trace : trace[i].op = op}
Bit(x, i) == (x \div (2 ^ i)) % 2
Exchanges == Ops("tx") \cup Ops("xfer")

\* C1: on a board that latches faithfully the select lines encode NONE (0x70)
\* every time a public pin-level call has returned.
C1_IdleAfterEveryCall ==
    (hw = "faithful" /\ pc = "ready"
       /\ call.fn \in {"PinMode", "DigitalWrite", "DigitalRead",
                       "AnalogRead", "AnalogWrite"})
      => GetShieldMode(lines) = 112

\* C2: when VerifyAndFixShieldMode reads the persisted reboot counter it has
\* sampled the lines exactly 3 times.
C2_ThreeSamplesThenCounter ==
    \A i \in Ops("getparam") :
      Cardinality({j \in Ops("sample") : j < i}) = 3

C4_ReturnOnlyOnMatch ==
    /\ [](/\ \A i \in Ops("vreturn") :
               /\ i > 1 /\ trace[i - 1].op = "sample"
               /\ trace[i - 1].v = trace[i].v
               /\ \A j \in Ops("verify") : trace[j].v = trace[i].v
          /\ (Ops("vreturn") # {} /\ Cardinality(Ops("sample")) = 1)
               => Ops("getparam") \cup Ops("setparam") = {}
          /\ Ops("vreturn") # {} => pc # "exited"
          /\ (Ops("verify") # {} /\ Ops("vreturn") = {})
               => pc \in {"verify", "exited"}
          /\ Cardinality(Ops("sample")) <= 4
          /\ pc = "verify" => Cardinality(Ops("sample")) < 4)
    /\ [][(pc = "verify" /\ pc' = "ready") => rebootcount' = rebootcount]_vars

\* a return on a later sample, after the first sample did not match
C4_Witness ==
    /\ pc = "ready" /\ Ops("vreturn") # {}
    /\ Cardinality(Ops("sample")) > 1

\* C5: on a board that never latches, starting with the counter at 0, at most
\* 3 reboot commands are issued before the fatal exit.
C5_AtMostThreeReboots ==
    (hw = "wedged" /\ pc = "exited" /\ ~rebooting) => reboots <= 3

\* C6: after ShieldLibInit returned TRUE the persisted reboot counter is 0.
C6_CounterZeroAfterInit ==
    (Returned("ShieldLibInit") /\ ret = 1) => rebootcount = 0

\* C7: PinMode(segment, mode), segment in 1..10, returns 0 exactly when
\* (mode # SPI or segment <= 8) and (mode # SIO or segment = 10); a rejected
\* call returns -1, leaves internalRegister unchanged, transmits nothing and
\* leaves the lines at NONE after VerifyAndFixShieldMode(NONE).
C7_Accepted(c) == (c.b # 1 \/ c.a <= 8) /\ (c.b # 2 \/ c.a = 10)

C7_PinModeAcceptance ==
    /\ [](Returned("PinMode") /\ call.a \in 1..10 =>
            /\ ret = 0 <=> C7_Accepted(call)
            /\ ~C7_Accepted(call) =>
                 /\ ret = -1
                 /\ Exchanges = {}
                 /\ GetShieldMode(lines) = 112
                 /\ \E i \in Ops("vreturn") : trace[i].v = 112)
    /\ [][(call'.fn = "PinMode" /\ call'.a \in 1..10 /\ ~C7_Accepted(call'))
            => internalRegister' = internalRegister]_vars

\* SPI refused on segment 9 after segment 9 was set to DIO
C7_Witness ==
    /\ Returned("PinMode") /\ call.a = 9 /\ call.b = 1 /\ ret = -1
    /\ internalRegister[0] = 254

\* C8: every validation error of the pin API returns a negative value (0 for
\* AnalogRead) and leaves the select lines at NONE.
C8_ErrorsLeaveIdle ==
    (pc = "ready" /\
       \/ call.fn = "PinMode" /\ (call.a \notin 1..10 \/ ~C7_Accepted(call))
       \/ call.fn = "DigitalWrite" /\ call.a \notin 1..20
       \/ call.fn = "DigitalRead" /\ call.a \notin 1..10
       \/ call.fn = "AnalogRead" /\ call.a > 7)
      => /\ IF call.fn = "AnalogRead" THEN ret = 0 ELSE ret < 0
         /\ GetShieldMode(lines) = 112

\* C9: after a successful PinMode(10, SIO) the CN20 bit of internalRegister[0]
\* (the bit PinMode(10, DIO) clears) is 1.
C9_SioBitSet ==
    (Returned("PinMode") /\ call.a = 10 /\ call.b = 2 /\ ret = 0)
      => Bit(internalRegister[0], 1) = 1

\* C10: PinMode(s, mode), s in 1..8, mode DIO or SPI, makes bit s-1 of
\* internalRegister[1] 1 for SPI and 0 for DIO and changes no other bit of
\* internalRegister and no output register.
C10_PinModeFrame ==
    [][(call'.fn = "PinMode" /\ calls' = calls + 1
          /\ call'.a \in 1..8 /\ call'.b \in {0, 1}) =>
         /\ Bit(internalRegister'[1], call'.a - 1) = call'.b
         /\ \A i \in 0..7 \ {call'.a - 1} :
              Bit(internalRegister'[1], i) = Bit(internalRegister[1], i)
         /\ internalRegister'[0] = internalRegister[0]
         /\ outputRegister1' = outputRegister1
         /\ outputRegister2' = outputRegister2]_vars

\* segment 3 set to DIO after segment 5: bits 2 and 4 clear, the rest set
C10_Witness ==
    /\ Returned("PinMode") /\ call.a = 3 /\ call.b = 0
    /\ internalRegister[1] = 235

\* C11: a successful PinMode does SetShieldMode(INTERNAL_REG) once, then one
\* 2-byte transmission of the updated internalRegister, and nothing else: no
\* VerifyAndFixShieldMode and no switch back to NONE.
C11_PinModeFireAndForget ==
    (Returned("PinMode") /\ ret = 0) =>
      /\ trace = <<Ev("set", INTERNAL_REG, <<>>),
                   Ev("tx", INTERNAL_REG,
                      <<internalRegister[0], internalRegister[1]>>)>>
      /\ GetShieldMode(lines) = INTERNAL_REG

\* PinMode(1, DIO) returned: the byte sent has bit 0 cleared
C11_Witness ==
    /\ Returned("PinMode") /\ ret = 0 /\ call.a = 1 /\ call.b = 0
    /\ internalRegister[1] = 254

\* the 32 bits of the two output registers; pin p owns bit p - 1
C12_Bits(r1, r2) ==
    [k \in 0..31 |->
       IF k < 8 THEN Bit(r1[1], k)
       ELSE IF k < 16 THEN Bit(r1[0], k - 8)
       ELSE IF k < 24 THEN Bit(r2[1], k - 16)
       ELSE Bit(r2[0], k - 24)]

\* C12: DigitalWrite(p, level), p in 1..20, makes the bit owned by p equal to
\* level and changes no other bit of outputRegister1, outputRegister2 and
\* internalRegister.
C12_DigitalWriteFrame ==
    /\ [][(call'.fn = "DigitalWrite" /\ calls' = calls + 1 /\ call'.a \in 1..20)
            => /\ C12_Bits(outputRegister1', outputRegister2') =
                    [C12_Bits(outputRegister1, outputRegister2)
                       EXCEPT ![call'.a - 1] = call'.b]
               /\ internalRegister' = internalRegister]_vars
    /\ [][pc = "verify" => regs' = regs]_vars

\* pin 11 cleared in the mixed pattern: 165 loses bit 2
C12_Witness ==
    /\ Returned("DigitalWrite") /\ call.a = 11 /\ call.b = 0
    /\ outputRegister1[0] = 161 /\ outputRegister1[1] = 90

C13_Sequence ==
    /\ Returned("DigitalWrite") /\ call.a \in 1..20 /\ call.b = 1
    /\ call'.fn = "DigitalWrite" /\ calls' = calls + 1
    /\ call'.a = call.a /\ call'.b = 0

\* C13 as stated: DigitalWrite(p, 1); DigitalWrite(p, 0) leaves both output
\* registers equal to the values they held before the sequence.
C13_RoundTrip ==
    [][C13_Sequence =>
         /\ outputRegister1' = entry.r1
         /\ outputRegister2' = entry.r2]_vars

\* C13 amended: the sequence leaves the output registers at their earlier
\* values with the bit of p cleared, hence at exactly the earlier values when
\* that bit was 0 before the sequence.
C13_RoundTripClearsBit ==
    [][C13_Sequence =>
         /\ C12_Bits(outputRegister1', outputRegister2') =
              [C12_Bits(entry.r1, entry.r2) EXCEPT ![call.a - 1] = 0]
         /\ PinBit(entry.r1, entry.r2, call.a) = 0 =>
              /\ outputRegister1' = entry.r1
              /\ outputRegister2' = entry.r2]_vars

\* DigitalWrite(5, 1); DigitalWrite(5, 0) from the initial registers
C13_Witness ==
    /\ Returned("DigitalWrite") /\ calls = 2 /\ call.a = 5 /\ call.b = 0
    /\ entry.r1[1] = 16 /\ entry.r1[0] = 0
    /\ outputRegister1[1] = 0 /\ outputRegister1[0] = 0

\* C14: DigitalWrite returns -1 exactly for the pins outside 1..20 (pin 0
\* included); such a call transmits nothing and leaves the bus at NONE after
\* VerifyAndFixShieldMode(NONE).
C14_DigitalWriteRange ==
    Returned("DigitalWrite") =>
      /\ call.a \in 1..20 => ret = 0
      /\ call.a \notin 1..20 =>
           /\ ret = -1
           /\ Exchanges = {}
           /\ GetShieldMode(lines) = NONE
           /\ \E i \in Ops("vreturn") : trace[i].v = NONE

\* C15: the bytes last latched in OUTPUT_REG_1 (OUTPUT_REG_2) mode equal
\* outputRegister1 (outputRegister2), and the bit of every written pin equals
\* the level of the last DigitalWrite issued for it.
C15_LatchFollowsMemory ==
    /\ latched[OUTPUT_REG_1] # <<>> =>
         latched[OUTPUT_REG_1] = <<outputRegister1[0], outputRegister1[1]>>
    /\ latched[OUTPUT_REG_2] # <<>> =>
         latched[OUTPUT_REG_2] = <<outputRegister2[0], outputRegister2[1]>>
    /\ \A p \in 1..20 :
         written[p] # -1 =>
           PinBit(outputRegister1, outputRegister2, p) = written[p]

\* pin 20 written HIGH, then pin 1 written HIGH: both latches loaded
C15_Witness ==
    /\ pc = "ready"
    /\ latched[OUTPUT_REG_1] = <<0, 1>> /\ latched[OUTPUT_REG_2] = <<0, 8>>
    /\ written[20] = 1 /\ written[1] = 1

\* the two bytes the transport handed to the read in the current call
C16_Bytes == trace[CHOOSE i \in Ops("xfer") : Len(trace[i].data) = 2].data

\* C16: DigitalRead returns 0 or 1 for the pins 1..10 and -1 for every other
\* pin, pin 0 included, whatever two bytes are read.
C16_DigitalReadRange ==
    Returned("DigitalRead") =>
      /\ call.a \in 1..10 => ret \in {0, 1}
      /\ call.a \notin 1..10 => ret = -1

\* C17: DigitalRead decodes the pins 1..8 as the bits 0..7 of inputRegister[0]
\* and the pins 9..10 as the bits 0..1 of inputRegister[1].
C17_DigitalReadDecoding ==
    (Returned("DigitalRead") /\ call.a \in 1..10) =>
      ret = IF call.a <= 8 THEN Bit(C16_Bytes[1], call.a - 1)
            ELSE Bit(C16_Bytes[2], call.a - 9)

\* the value of a read as a function of the pin and the two bytes alone
C18_Decode(pin_number, b) ==
    IF pin_number = 0 THEN 0
    ELSE IF pin_number <= 8 THEN Bit(b[2], pin_number - 1)
    ELSE IF pin_number <= 10 THEN Bit(b[1], pin_number - 9)
    ELSE -1

\* C18: what DigitalRead returns is determined by the pin and the two bytes
\* read, and the call changes none of the three registers.
C18_DigitalReadPure ==
    /\ [](Returned("DigitalRead") => ret = C18_Decode(call.a, C16_Bytes))
    /\ [][(call'.fn = "DigitalRead" /\ calls' = calls + 1) => regs' = regs]_vars
    /\ [][(call.fn = "DigitalRead" /\ pc = "verify") => regs' = regs]_vars

\* pin 1 read as 0 from zero bytes while outputRegister1 holds pin 1 HIGH
C18_Witness ==
    /\ Returned("DigitalRead") /\ call.a = 1 /\ ret = 0
    /\ C16_Bytes = <<0, 0>>
    /\ outputRegister1[1] = 1

\* C19: AnalogRead of a channel above 7 returns 0 without any exchange on the
\* transport and without SetShieldMode: lines and registers stay as they were.
C19_AnalogReadOutOfRange ==
    [][(call'.fn = "AnalogRead" /\ calls' = calls + 1 /\ call'.a > 7)
         => /\ ret' = 0
            /\ trace' = <<>>
            /\ lines' = lines
            /\ regs' = regs
            /\ pc' = pc]_vars

\* AnalogRead(8) after PinMode left the lines at INTERNAL_REG
C19_Witness ==
    /\ Returned("AnalogRead") /\ call.a = 8 /\ ret = 0 /\ trace = <<>>
    /\ GetShieldMode(lines) = INTERNAL_REG

\* C20: for the channels 0..7 AnalogRead returns b0 * 256 + b1 when that is
\* at most 4095 and (b0 mod 16) * 256 + b1 otherwise; 0x1F 0xFF gives 4095.
C20_AnalogReadValue ==
    (Returned("AnalogRead") /\ call.a <= 7) =>
      LET b0 == C16_Bytes[1]
          b1 == C16_Bytes[2]
      IN  /\ ret = IF b0 * 256 + b1 <= ADC_MAXIMUM THEN b0 * 256 + b1
                   ELSE (b0 % 16) * 256 + b1
          /\ (b0 = 31 /\ b1 = 255) => ret = ADC_MAXIMUM

\* channel 3 answering 0x1F 0xFF
C20_Witness ==
    /\ Returned("AnalogRead") /\ call.a = 3
    /\ C16_Bytes = <<31, 255>>
    /\ ret = ADC_MAXIMUM

\* the raw 16-bit sample of the current AnalogRead
C21_Raw == C16_Bytes[1] * 256 + C16_Bytes[2]

\* C21: AnalogRead goes back to NONE and runs VerifyAndFixShieldMode(NONE)
\* exactly when the raw sample is at most 4095; above 4095 it returns with
\* the lines still encoding ADC and without any verification.
C21_AnalogReadAsymmetry ==
    (call.fn = "AnalogRead" /\ call.a <= 7) =>
      /\ (C21_Raw <= ADC_MAXIMUM) <=> (Ops("verify") # {})
      /\ C21_Raw <= ADC_MAXIMUM =>
           /\ SubSeq(trace, 4, 5) = <<Ev("set", NONE, <<>>), Ev("verify", NONE, <<>>)>>
           /\ GetShieldMode(lines) = NONE
      /\ C21_Raw > ADC_MAXIMUM =>
           /\ pc = "ready"
           /\ Ops("set") = {1}
           /\ GetShieldMode(lines) = ADC

\* channel 0 answering 0x10 0x00, one above the 12-bit maximum
C21_Witness ==
    /\ Returned("AnalogRead") /\ call.a = 0
    /\ C16_Bytes = <<16, 0>>
    /\ ret = 0
    /\ GetShieldMode(lines) = ADC

\* the events of the current call that transmit a 3-byte word
C22_Commands == {i \in Ops("tx") : Len(trace[i].data) = 3}

\* the command word of the current AnalogWrite
C22_Word == trace[CHOOSE i \in C22_Commands : TRUE].data

\* C22: AnalogWrite never rejects its input; the first command byte is 0x30
\* for bank 0 and 0x31 for every bank above, and a value above 2230 mV gives
\* the same three bytes as 2230 mV.
C22_AnalogWriteClamps ==
    call.fn = "AnalogWrite" =>
      /\ C22_Commands # {}
      /\ C22_Word[1] = IF call.a = 0 THEN 48 ELSE 49
      /\ call.b > 2230 => C22_Word = DacCommand(call.a, 2230)

\* bank 3 and 2500 mV are sent as bank 1 and full scale
C22_Witness ==
    /\ Returned("AnalogWrite") /\ call.a = 3 /\ call.b = 2500
    /\ C22_Word = <<49, 255, 240>>

\* the 12 data bits of a command word
C23_Code(w) == w[2] * 16 + (w[3] \div 16)

\* mv * 4095 / 2230 rounded to nearest
C23_Scaled(mv) == (2 * mv * ADC_MAXIMUM + 2230) \div (2 * 2230)

\* C23: for mv in 0..2230 the 12 data bits of the command word are mv scaled
\* by 4095/2230 and rounded to nearest, the low nibble of byte 2 is zero, and
\* the code does not decrease from mv to mv + 1.
C23_DacCodeLinear ==
    (call.fn = "AnalogWrite" /\ call.b <= 2230) =>
      /\ C23_Code(C22_Word) = C23_Scaled(call.b)
      /\ C22_Word[3] % 16 = 0
      /\ call.b < 2230 =>
           C23_Code(C22_Word) <= C23_Code(DacCommand(call.a, call.b + 1))

\* the modes of the SetShieldMode calls of the current call, in order
C24_Modes ==
    LET sets == SelectSeq(trace, LAMBDA e : e.op = "set")
    IN  [i \in DOMAIN sets |-> sets[i].v]

\* C24: AnalogWrite drives the modes ADC, DAC, NONE in that order, transmits
\* the 3-byte command word only while the lines encode DAC, and ends with
\* VerifyAndFixShieldMode(NONE).
C24_AnalogWriteSequence ==
    call.fn = "AnalogWrite" =>
      /\ C24_Modes = <<ADC, DAC, NONE>>
      /\ \E i \in C22_Commands :
           /\ C22_Commands = {i}
           /\ trace[i].v = DAC
           /\ trace[i - 1] = Ev("set", DAC, <<>>)
      /\ \E i \in Ops("verify") :
           /\ Ops("verify") = {i}
           /\ trace[i] = Ev("verify", NONE, <<>>)
           /\ trace[i - 1] = Ev("set", NONE, <<>>)
      /\ pc = "ready" => trace[Len(trace)] = Ev("vreturn", NONE, <<>>)

\* AnalogWrite(0, 1000) returned after its verification
C24_Witness ==
    /\ Returned("AnalogWrite") /\ call.a = 0 /\ call.b = 1000
    /\ trace[Len(trace)] = Ev("vreturn", NONE, <<>>)
    /\ GetShieldMode(lines) = NONE

\* C25: with lines that read back what was driven, GetShieldMode after
\* SetShieldMode(m) returns the code of m for each of the nine modes, GEN6
\* being the most significant bit, whatever the lines were before; for any
\* other integer the lines read 0x7F (ADC).
C25_SetThenGet ==
    call.fn = "SetShieldMode" =>
      /\ call.a \in ShieldModes => ret = call.a
      /\ call.a \notin ShieldModes => ret = ADC
      /\ ret = lines[6] * 64 + lines[5] * 32 + lines[4] * 16 + lines[3] * 8
                 + lines[2] * 4 + lines[1] * 2 + lines[0]

\* SetShieldMode(0x7C), not a code of the enumeration, reads back as ADC
C25_Witness ==
    /\ call.fn = "SetShieldMode" /\ call.a = 124
    /\ ret = ADC

\* the patterns of the nine modes differ from one another
C26_Distinct ==
    \A m1, m2 \in ShieldModes :
      m1 # m2 => SetShieldMode(lines, m1) # SetShieldMode(lines, m2)

\* C26 as stated: the nine final patterns are pairwise distinct, INIT_ALL_LOW
\* is 0000000 and every other mode, NONE included, has GEN6..GEN3 all HIGH.
C26_HighFamily ==
    (call.fn = "SetShieldMode" /\ call.a \in ShieldModes) =>
      /\ C26_Distinct
      /\ call.a = INIT_ALL_LOW => lines = AllLow
      /\ call.a # INIT_ALL_LOW => \A g \in 3..6 : lines[g] = 1

\* C26 amended: the nine final patterns are pairwise distinct, INIT_ALL_LOW
\* is 0000000, NONE is 1110000, and the seven other modes have GEN6..GEN3 all
\* HIGH.
C26_HighFamilyButNone ==
    (call.fn = "SetShieldMode" /\ call.a \in ShieldModes) =>
      /\ C26_Distinct
      /\ call.a = INIT_ALL_LOW => lines = AllLow
      /\ call.a = NONE => lines = [g \in GEN |-> IF g >= 4 THEN 1 ELSE 0]
      /\ call.a \notin {INIT_ALL_LOW, NONE} => \A g \in 3..6 : lines[g] = 1

\* SetShieldMode(NONE) has driven GEN3 LOW again
C26_Witness ==
    /\ call.fn = "SetShieldMode" /\ call.a = NONE /\ calls = 1
    /\ lines[3] = 0 /\ lines[4] = 1 /\ lines[0] = 0

\* C27: when the transport initialises, ShieldLibInit does
\* SetShieldMode(INIT_ALL_LOW), SetShieldMode(ADC), VerifyAndFixShieldMode(ADC)
\* and SetShieldMode(NONE) in that order and returns TRUE with the lines at
\* NONE; when it does not, ShieldLibInit returns FALSE without driving a line
\* and without loading the timing configuration.
C27_InitSequence ==
    /\ [](Returned("ShieldLibInit") =>
            /\ ret = 1
            /\ SubSeq(trace, 1, 4) = <<Ev("loadcfg", 0, <<>>),
                                       Ev("set", INIT_ALL_LOW, <<>>),
                                       Ev("set", ADC, <<>>),
                                       Ev("verify", ADC, <<>>)>>
            /\ C24_Modes = <<INIT_ALL_LOW, ADC, NONE>>
            /\ Ops("verify") = {4}
            /\ SubSeq(trace, Len(trace) - 1, Len(trace)) =
                 <<Ev("vreturn", ADC, <<>>), Ev("set", NONE, <<>>)>>
            /\ GetShieldMode(lines) = NONE)
    /\ [][(call'.fn = "ShieldLibInit" /\ pc = "off" /\ pc' = "off")
            => /\ ret' = 0
               /\ trace' = <<>>
               /\ lines' = lines]_vars

\* initialisation on a flaky board that needed a second sample
C27_Witness ==
    /\ Returned("ShieldLibInit") /\ ret = 1
    /\ hw = "flaky"
    /\ Len(trace) = 8
    /\ GetShieldMode(lines) = NONE

\* C29: in every pin-level operation each transport exchange is preceded, with
\* no other mode switch in between, by SetShieldMode to the dedicated mode and
\* by a VerifyAndFixShieldMode that confirmed that mode.
C29_VerifiedBeforeExchange ==
    call.fn \in {"PinMode", "DigitalWrite", "DigitalRead", "AnalogRead", "AnalogWrite"} =>
      \A i \in Exchanges :
        \E j \in 1..(i - 1), k \in 1..(i - 1) :
          /\ j < k
          /\ trace[j] = Ev("set", trace[i].v, <<>>)
          /\ trace[k] = Ev("vreturn", trace[i].v, <<>>)
          /\ \A n \in (j + 1)..(i - 1) : trace[n].op # "set"

\* names the claim calls malformed: a pin suffix 3, a missing pin field, a
\* missing port field, another prefix
C28_BadPinNames ==
    {PinName(11, 3),
     PortName(11),
     <<"s", "h", "i", "e", "l", "d">>,
     <<"g", "p", "i", "o", ".", "1", "1">>,
     <<"b", "o", "a", "r", "d", "s", ".", "c", "n", "1", "1", ".", "2">>}

C28_BadPortNames ==
    {<<"b", "o", "a", "r", "d", "s", ".", "c", "n", "1", "2">>,
     <<"s", "h", "i", "e", "l", "d">>}

C28_Malformed(c) ==
    \/ /\ c.fn = "RpcPinWrite"
       /\ (c.a \in C28_BadPinNames \/ c.b \notin {<<"0">>, <<"1">>})
    \/ /\ c.fn \in {"RpcChangeMode", "RpcDigitalRead"}
       /\ c.a \in C28_BadPortNames

\* C28: RpcPinWrite, RpcChangeMode and RpcDigitalRead given a malformed name,
\* or RpcPinWrite given a value other than 0 or 1, return -1 without any
\* SetShieldMode, any exchange and any change of the registers.
C28_MalformedRejected ==
    [][(calls' = calls + 1 /\ C28_Malformed(call'))
         => /\ ret' = -1
            /\ trace' = <<>>
            /\ lines' = lines
            /\ regs' = regs
            /\ pc' = pc]_vars

\* C30: RpcPinWrite("shield.cnNN.P", v), NN in 11..20, P in {2, 4}, v in
\* {0, 1}, first sets segment NN - 10 to DIO through PinMode, then does
\* DigitalWrite on pin 2 * (NN - 11) + P / 2, whose segment ceil(pin / 2) is
\* NN - 10, and returns the result of that DigitalWrite.
C30_RpcPinWriteDelegates ==
    \A nn \in 11..20, p \in {2, 4}, v \in {0, 1} :
      (/\ call.fn = "RpcPinWrite"
       /\ call.a = PinName(nn, p)
       /\ call.b = <<Digits[v + 1]>>) =>
        LET pin == 2 * (nn - 11) + (p \div 2)
            seg == nn - 10
            mode == IF pin <= 16 THEN OUTPUT_REG_1 ELSE OUTPUT_REG_2
            reg == IF pin <= 16 THEN outputRegister1 ELSE outputRegister2
        IN  /\ (pin + 1) \div 2 = seg
            /\ SubSeq(trace, 1, 6) =
                 <<Ev("set", INTERNAL_REG, <<>>),
                   Ev("tx", INTERNAL_REG, <<internalRegister[0], internalRegister[1]>>),
                   Ev("set", mode, <<>>),
                   Ev("tx", mode, <<reg[0], reg[1]>>),
                   Ev("set", NONE, <<>>),
                   Ev("verify", NONE, <<>>)>>
            /\ Bit(internalRegister[IF seg < 9 THEN 1 ELSE 0], (seg - 1) % 8) = 0
            /\ PinBit(outputRegister1, outputRegister2, pin) = v
            /\ written[pin] = v
            /\ ret = 0

\* RpcPinWrite("shield.cn20.4", "1"): segment 10 to DIO, pin 20 HIGH
C30_Witness ==
    /\ Returned("RpcPinWrite")
    /\ call.a = PinName(20, 4) /\ call.b = <<"1">>
    /\ internalRegister[0] = 253
    /\ outputRegister2[1] = 8
    /\ ret = 0

\* C31: a transport exchange made while the select lines encode a mode other
\* than the dedicated mode of the call that makes it happens only when the
\* two threads are not serialized: with the calls serialized at most one
\* thread is inside a pin-level call and every exchange is made in the
\* call's dedicated mode, and the unserialized program does reach such an
\* exchange (C31_Witness).
C31_Mixed == exch.t # 0 /\ exch.seen # exch.want

C31_MixedOnlyUnserialized ==
    /\ C31_Mixed => ~serialized
    /\ serialized => ~(Inside(1) /\ Inside(2))

C31_Witness ==
    /\ C31_Mixed
    /\ tcall[1].fn = "DigitalWrite"
    /\ tcall[2].fn = "DigitalRead"
    /\ exch.t = 1
    /\ exch.seen = INPUT_REG

\* C32: while SetShieldMode(m) runs from lines resting in NONE, or
\* SetShieldMode(NONE) runs from lines resting in m, the lines never encode,
\* after any single line write, a ShieldMode other than NONE and m.
C32_NoThirdMode ==
    /\ origin = NONE \/ target = NONE
    /\ GetShieldMode(lines) \in ShieldModes
         => GetShieldMode(lines) \in {origin, target}

\* C33: started in 0..4, the persisted reboot counter stays in 0..4 through
\* boot cycles, calls that succeed and verifications that fail; a step that
\* changes it is the exit step of VerifyAndFixShieldMode, which adds one to a
\* counter of at most 3 or writes 0.
C33_CounterBounded ==
    /\ [](rebootcount \in 0..(MAX_REBOOT_RETRY_TIME + 1))
    /\ [][rebootcount' # rebootcount
            => /\ pc = "verify" /\ pc' = "exited"
               /\ \/ rebootcount <= MAX_REBOOT_RETRY_TIME
                        /\ rebootcount' = rebootcount + 1
                  \/ rebootcount' = 0]_vars

C33_Witness ==
    /\ pc = "exited"
    /\ rebooting
    /\ rebootcount = MAX_REBOOT_RETRY_TIME + 1
    /\ reboots = 2
    /\ hw = "flaky"

\* C34: a step of VerifyAndFixShieldMode leaves internalRegister and the
\* output registers unchanged and, up to its return or the exit of the
\* process, only samples the lines: it makes no SetShieldMode, no exchange
\* and no line write (the lines change in such a step only by the
\* SetShieldMode(NONE) that ShieldLibInit makes after the return).
C34_Within(old, new) ==
    {i \in (Len(old) + 1)..Len(new) :
        \A j \in (Len(old) + 1)..(i - 1) : new[j].op # "vreturn"}

C34_VerifyOnlySamples ==
    [][pc = "verify"
         => /\ regs' = regs
            /\ \A i \in C34_Within(trace, trace') :
                 trace'[i].op \in {"sample", "vreturn", "getparam", "setparam",
                                   "reboot", "close", "exit"}
            /\ lines' # lines
                 => /\ call.fn = "ShieldLibInit"
                    /\ pc' = "ready"
                    /\ lines' = SetShieldMode(lines, NONE)]_vars

C34_Witness ==
    /\ Returned("DigitalWrite")
    /\ hw = "flaky"
    /\ Cardinality(Ops("sample")) = MAX_SAMPLING_RETRY_TIME
    /\ lines = SetShieldMode(AllLow, NONE)

\* C35: RpcChangeMode("shield.cnNN", value) acts as PinMode(NN - 10, mode)
\* and returns its result, where mode is DIO, SPI, SIO for the values dio,
\* spi, sio and DIO, the default, for a value that is none of the three.
C35_Mode(value) ==
    IF value = <<"s", "p", "i">> THEN SPI
    ELSE IF value = <<"s", "i", "o">> THEN SIO
    ELSE DIO

C35_ChangeModeDefaultDio ==
    [][\A nn \in 11..20, value \in ModeNameArgs :
         /\ pc = "ready"
         /\ calls' = calls + 1
         /\ call'.fn = "RpcChangeMode"
         /\ call'.a = PortName(nn)
         /\ call'.b = value
         => LET e == PinModeEffect(lines, internalRegister, nn - 10,
                                   C35_Mode(value))
            IN  /\ ret' = e.ret
                /\ lines' = e.lines
                /\ internalRegister' = e.reg
                /\ trace' = e.ev]_vars

\* C36: an iteration of the barcode monitor made while the scanner is locked
\* leaves barcode_value and barcode_id unchanged, sends no id message and
\* sets position to 0.  An Enter received while it is unlocked sends, in a
\* mode other than CCD_NONE, exactly one id message after locking the
\* scanner, which is then left locked unless the mode is CCD_TEST; in
\* CCD_NONE it sends no message and leaves barcode_id unchanged.  A locked
\* scanner is unlocked only by a call of CcdUnLock, so no second id message
\* is sent before that call.
C36_Ids(ev) == {i \in DOMAIN ev : ev[i].op = "id"}

C36_Enter(ev) == ev[1].v = 40 /\ ev[1].data[1] >= 0

C37_WriteIndexInRange ==
    \A i \in DOMAIN ccd_ev :
       ccd_ev[i].op = "write" => ccd_ev[i].v \in 0..(EMPLOYEE_ID_LENGTH - 1)

\* C38: after any sequence of BufferInit, BufferBinPush, BufferTrim with any
\* integer len, BufferReset and BufferDataDestroy, either data is NULL and
\* buf_len = data_len = 0, or 0 <= data_len < buf_len and data[data_len] is
\* the zero byte; a BufferBinPush whose allocation fails returns -1 and
\* leaves the three fields unchanged.
C38_WellFormed(b) ==
    \/ b.data = NULL /\ b.buf_len = 0 /\ b.data_len = 0
    \/ /\ b.data # NULL
       /\ 0 <= b.data_len
       /\ b.data_len < b.buf_len
       /\ b.data_len + 1 \in DOMAIN b.data
       /\ b.data[b.data_len + 1] = 0

C38_BufferWellFormed ==
    /\ [](C38_WellFormed(buffer))
    /\ [][buf_ev'.op = "BufferBinPush" /\ buf_ev'.alloc = "failed"
            => buf_ret' = -1 /\ buffer' = buffer]_vars

\* C39: in every state of the logger, from the static configuration on and
\* after any SetLogConfig calls, LogConfig.limit is at least
\* DEFAULT_LOG_LIMIT, and a log file that is closed holds at least
\* DEFAULT_LOG_LIMIT bytes.
C39_LimitAtLeastDefault ==
    /\ LogConfig.limit >= DEFAULT_LOG_LIMIT
    /\ \A i \in 1..Len(log_ev) :
         log_ev[i].op = "fclose" => log_ev[i].v >= DEFAULT_LOG_LIMIT

====
